---- MODULE Spec2Model ----
(***************************************************************************)
(* Model of scripts/site_audit_tool.py, the site-audit report builder, and *)
(* of scripts/report_hook.py, the hook that forwards its report.           *)
(*                                                                         *)
(* The specifications share the module's variables:                        *)
(*   Spec       one run of main(): parse_args, mkdir, build_report, write, *)
(*              strict check, exit; the audited tree is the input.         *)
(*   SpecScan   the text detectors on one file's text, character by        *)
(*              character (the regular expressions of lines 34-37).        *)
(*   SpecImage  get_image_dimensions on one file's bytes, read by read.    *)
(*   SpecRoutes normalize_route on a path, and collect_known_routes.        *)
(*   SpecRuns   two runs of main() and the wall clock their file names      *)
(*              are stamped from.                                           *)
(*   SpecProbe  sample_http_urls and probe_url, urlopen call by call.       *)
(*   SpecImageFair   SpecImage with the fairness termination needs.        *)
(*   SpecFrontMatter the two front-matter readers and the boolean-flag     *)
(*              detector on one document's text.                           *)
(*   SpecHook   one run of the hook's main().                              *)
(* Scores are kept in tenths (8.9 is 89).                                  *)
(***************************************************************************)
EXTENDS Integers, Sequences, FiniteSets, TLC

VARIABLES
    \* ---- one run of main() ----
    facts,        \* the primitive signals that are true of the audited tree
    ev,           \* evidence found by the scan, as a count per evidence list
    tree,         \* the content documents under _posts, _blogs and pages
    argv,         \* the command line
    pc,           \* position of main()
    report,       \* the report built by build_report
    failures,     \* the list collect_strict_failures returned
    exit_status,  \* the process exit status, -1 while running
    exit_cause,   \* why the process ended
    files,        \* report files written to reports/
    reports_dir,  \* whether reports/ exists
    stdout,       \* lines printed
    probes,       \* the number of probe_url calls the run made
    \* ---- the text detectors ----
    text,         \* the text of the scanned file
    disk,         \* site-relative paths that exist on disk
    routes,       \* the route table (collect_known_routes)
    scan_pc,      \* "scan" before the detectors ran, "done" after
    found,        \* the evidence items the detectors reported for the file
    \* ---- get_image_dimensions ----
    img,          \* the bytes of the file
    pos,          \* the read position
    ipc,          \* position in get_image_dimensions
    marker,       \* the marker byte last read by the JPEG loop (-1: none)
    dims,         \* the outcome: running, null, raise or a (width, height)
    \* ---- normalize_route and collect_known_routes ----
    rt_path,      \* the argument of normalize_route
    route,        \* normalize_route(path)
    route2,       \* normalize_route(route)
    site,         \* the files of pages/, _posts/ and _blogs/
    table,        \* the route table being collected
    rt_pc,        \* position in the route computation
    \* ---- successive runs and the report file name ----
    clock,        \* what datetime.now() returns, in microseconds
    run_pc,       \* position of each run between build_report and write_text
    stamp,        \* the stamp each run formatted (-1: none yet)
    reports,      \* reports/: for each file name, the run whose report it holds
    \* ---- probe_url and sample_http_urls ----
    server,       \* how the server answers HEAD and GET, for each sampled URL
    probe_pc,     \* position in sample_http_urls / probe_url
    cur,          \* index of the URL being probed
    requests,     \* the urlopen calls issued, in order, as <<index, method>>
    results,      \* the probe results, in order
    http_failures, \* the failures list sample_http_urls returns
    external_urls, \* the list collect_external_urls returned
    forms,        \* the action URLs of the forms declared with method=post
    hints,        \* the preconnect hrefs of _layouts/default.html
    http_sample,  \* the --http-sample cap
    sampled,      \* the URLs sample_http_urls probes, in order
    http_check_out, \* the dict sample_http_urls returns
    \* ---- the front-matter readers ----
    fm_text,      \* the text of the document
    fm_key,       \* the key extract_front_matter_value is asked for
    fm_pc,        \* which reader runs next
    fm_value,     \* what extract_front_matter_value returned
    fm_values,    \* what parse_front_matter_values returned
    fm_invalid,   \* what collect_invalid_boolean_front_matter_flags appended
    \* ---- report_hook.py ----
    hook_pc,      \* position in main() of the hook
    hook_dir,     \* reports/: the report files, oldest first
    hook_env,     \* what the audit, the agent and git do when called
    hook_sent,    \* the report files send_report_to_codex was called with
    hook_log      \* what the hook did, in order

runVars == <<facts, ev, tree, argv, pc, report, failures, exit_status,
             exit_cause, files, reports_dir, stdout, probes>>
scanVars == <<text, disk, routes, scan_pc, found>>
imgVars == <<img, pos, ipc, marker, dims>>
routeVars == <<rt_path, route, route2, site, table, rt_pc>>
stampVars == <<clock, run_pc, stamp, reports>>
probeInputs == <<external_urls, forms, hints, http_sample>>
probeVars == <<server, probe_pc, cur, requests, results, http_failures,
               probeInputs, sampled, http_check_out>>
fmVars == <<fm_text, fm_key, fm_pc, fm_value, fm_values, fm_invalid>>
hookVars == <<hook_pc, hook_dir, hook_env, hook_sent, hook_log>>
vars == <<runVars, scanVars, imgVars, routeVars, stampVars, probeVars,
          fmVars, hookVars>>

(***************************************************************************)
(* Bounds of the model.                                                    *)
(***************************************************************************)
\* How far the audited tree may be from the all-green tree: the number of
\* flipped signals, evidence items and content documents, together.
MaxDefects == 1

RECURSIVE KSubsets(_, _)
\* The subsets of S with at most k elements.
KSubsets(S, k) ==
    IF k = 0 THEN {{}}
    ELSE LET P == KSubsets(S, k - 1) IN P \cup {p \cup {e} : p \in P, e \in S}

(***************************************************************************)
(* The primitive signals build_report reads off the tree (lines 549-795).  *)
(* Each is named after the local variable that holds it.                   *)
(***************************************************************************)
LayoutSignals ==
    {"has_viewport", "has_skip_link",
     "has_default_mobile_web_app_meta", "has_share_mobile_web_app_meta",
     "has_default_mobile_web_app_title", "has_share_mobile_web_app_title",
     "has_default_application_name_meta", "has_share_application_name_meta",
     "has_default_theme_color_meta", "has_share_theme_color_meta",
     "has_default_main_landmark_aria_label", "has_share_main_landmark_aria_label"}

SeoSignals ==
    {"has_seo_tag", "has_manual_canonical", "has_paginated_rel_navigation",
     "has_large_social_image", "has_social_image_alt",
     "has_share_page_large_social_image", "has_social_alt_fallback_template",
     "has_paginated_noindex_policy", "has_paginated_hreflang_guard"}

ContentSignals ==
    {"formspree_blog_preconnect", "has_home_avatar_preload_flag",
     "has_home_avatar_priority", "has_home_avatar_responsive_sources",
     "has_theme_js_preload", "has_bootstrap_css_preload", "has_local_css_preload",
     "has_share_font_css_preload", "has_share_local_css_preload",
     "has_guarded_share_social_image_preload", "has_guarded_featured_image_preload",
     "has_guarded_adjacent_post_prefetch", "has_guarded_disqus_preconnect",
     "has_guarded_analytics_preconnect", "has_guarded_default_font_preconnect",
     "has_share_font_preconnect", "has_share_font_stylesheet",
     "has_apple_touch_icon_sizes", "apple_touch_icon_square_180",
     "has_share_apple_touch_icon_sizes", "share_apple_touch_icon_square_180",
     "default_manifest_path", "share_manifest_path", "same_manifest_path",
     "manifest_is_json_object", "manifest_baseline_keys",
     "manifest_icon_192", "manifest_icon_512", "manifest_maskable_icon_192"}

\* _config.yml, _layouts/default.html, _layouts/share.html and index.html can
\* be read (lines 544-547 raise when one is absent).
RequiredFiles == {"required_files_readable"}

\* The reads of the scanned files (read_text, lines 55-59, called by the
\* loop of lines 647-649 and by the detectors): every scanned file decodes
\* as UTF-8, and every scanned file can be read at all. read_text catches
\* UnicodeDecodeError and reads the file again as latin-1; it catches
\* nothing else, so an OSError (an unreadable file, a directory named x.md)
\* leaves build_report.
ScannedFileReads == {"scanned_files_utf8", "scanned_files_readable"}

AllSignals ==
    LayoutSignals \cup SeoSignals \cup ContentSignals \cup RequiredFiles
    \cup ScannedFileReads

\* The signals whose presence is the regression.
UnwantedSignals ==
    {"has_manual_canonical", "formspree_blog_preconnect", "has_theme_js_preload",
     "has_bootstrap_css_preload", "has_local_css_preload",
     "has_share_font_css_preload", "has_share_local_css_preload",
     "has_share_font_preconnect", "has_share_font_stylesheet"}

\* The signals of a tree on which every check passes.
GreenSignals == AllSignals \ UnwantedSignals

\* The evidence lists that do not come from the content documents' front
\* matter; unreachable_urls are the sampled URLs whose probe would fail.
EvidenceLists ==
    {"malformed_links", "placeholder_hits", "missing_internal_links",
     "missing_liquid_internal_links", "missing_liquid_link_tag_targets",
     "invalid_perf_flags", "duplicate_resource_hint_hosts", "seo_missing",
     "unreachable_urls"}

\* what the tree is counted by: the evidence lists, and the sampled
\* external URLs that would answer a probe
TreeCounts == EvidenceLists \cup {"reachable_urls"}

has(s) == s \in facts

(***************************************************************************)
(* Guardrails build_report derives from the primitive signals.             *)
(***************************************************************************)
has_canonical_signal_consistency ==
    has("has_seo_tag") /\ ~has("has_manual_canonical")
    /\ has("has_paginated_rel_navigation")

has_mobile_ready_apple_touch_icon ==
    has("has_apple_touch_icon_sizes") /\ has("apple_touch_icon_square_180")

has_share_mobile_ready_apple_touch_icon ==
    has("has_share_apple_touch_icon_sizes") /\ has("share_apple_touch_icon_square_180")

has_default_manifest_link == has("default_manifest_path")

has_share_manifest_link == has("share_manifest_path")

manifest_paths_match ==
    has("default_manifest_path") /\ has("share_manifest_path")
    /\ has("same_manifest_path")

\* parse_web_manifest(default_manifest_path if manifest_paths_match else None)
web_manifest == manifest_paths_match /\ has("manifest_is_json_object")

has_manifest_baseline == web_manifest /\ has("manifest_baseline_keys")

\* has_manifest_icon(web_manifest, 192): any icon of at least 192 pixels
has_manifest_icon_192 ==
    web_manifest
    /\ (has("manifest_icon_192") \/ has("manifest_icon_512")
        \/ has("manifest_maskable_icon_192"))

has_manifest_icon_512 == web_manifest /\ has("manifest_icon_512")

has_manifest_maskable_icon_192 == web_manifest /\ has("manifest_maskable_icon_192")

has_mobile_ready_web_manifest ==
    has_default_manifest_link /\ has_share_manifest_link /\ manifest_paths_match
    /\ has_manifest_baseline /\ has_manifest_icon_192 /\ has_manifest_icon_512
    /\ has_manifest_maskable_icon_192

(***************************************************************************)
(* Content documents and the front-matter image detectors.                 *)
(* A document is a file under one of the three content folders; nested     *)
(* says it lies in a subfolder; image .. image_height say that the front   *)
(* matter declares the key with a non-empty value.                         *)
(***************************************************************************)
ContentFolders == {"_posts", "_blogs", "pages"}

ContentSuffixes == {".md", ".markdown", ".html"}

\* The field combinations: a document without an image declares none of the
\* other three keys here, one with an image any of them.
FrontMatters ==
    {[image |-> i, image_alt |-> a, image_width |-> w, image_height |-> h] :
        i \in BOOLEAN, a \in BOOLEAN, w \in BOOLEAN, h \in BOOLEAN}

Documents ==
    {[folder |-> f, nested |-> n, suffix |-> s, fm |-> m] :
        f \in ContentFolders, n \in BOOLEAN, s \in {".md", ".yml"},
        m \in {x \in FrontMatters : x.image \/ ~(x.image_alt \/ x.image_width \/ x.image_height)}}

\* folder.glob('*'): the files directly in the folder, subfolders not entered
GlobStar(folder) == {d \in tree : d.folder = folder /\ ~d.nested}

\* p.rglob(ext): the files of the folder at any depth (iter_files, and the
\* link and flag detectors)
RGlob(folder) == {d \in tree : d.folder = folder}

\* the files of the folder the image detectors visit
ImageDetectorFiles(folder) ==
    {d \in GlobStar(folder) : d.suffix \in ContentSuffixes}

MissingDimensions(d) == d.fm.image /\ ~(d.fm.image_width /\ d.fm.image_height)

MissingAlt(d) == d.fm.image /\ ~d.fm.image_alt

collect_posts_missing_image_dimensions ==
    {d \in ImageDetectorFiles("_posts") \cup ImageDetectorFiles("_blogs") :
        MissingDimensions(d)}

collect_pages_missing_image_dimensions ==
    {d \in ImageDetectorFiles("pages") : MissingDimensions(d)}

\* collect_entries_missing_image_alt looping over ('_blogs', 'pages') only
EntriesMissingAltSkippingPosts ==
    {d \in ImageDetectorFiles("_blogs") \cup ImageDetectorFiles("pages") : MissingAlt(d)}

collect_entries_missing_image_alt ==
    {d \in ImageDetectorFiles("_posts") \cup ImageDetectorFiles("_blogs")
           \cup ImageDetectorFiles("pages") : MissingAlt(d)}

(***************************************************************************)
(* build_report: the four sections (lines 797-1230).                       *)
(***************************************************************************)
Sections == {"layout_assessment", "broken_links_check", "seo_evaluation", "content_quality"}

\* the two score tiers of each section, in tenths
HighScore ==
    [layout_assessment |-> 89, broken_links_check |-> 90,
     seo_evaluation |-> 90, content_quality |-> 90]

LowScore ==
    [layout_assessment |-> 70, broken_links_check |-> 65,
     seo_evaluation |-> 70, content_quality |-> 72]

\* malformed_links + placeholder_hits + missing_internal_links
\* + missing_liquid_internal_links + missing_liquid_link_tag_targets
broken_links ==
    ev["malformed_links"] + ev["placeholder_hits"] + ev["missing_internal_links"]
    + ev["missing_liquid_internal_links"] + ev["missing_liquid_link_tag_targets"]

\* what sample_http_urls returns, each list by its length: every sampled
\* URL gives one result, the failures are those whose probe fails
sample_http_urls ==
    [enabled |-> TRUE,
     sample_size |-> ev["unreachable_urls"] + ev["reachable_urls"],
     failures |-> ev["unreachable_urls"],
     results |-> ev["unreachable_urls"] + ev["reachable_urls"]]

\* http_check_result with the sample taken whatever the flag says
HttpCheckResultAlwaysSampled(http_check) == sample_http_urls

\* the default of line 645, replaced by the sample only under --http-check
\* (lines 670-671)
http_check_result(http_check) ==
    IF http_check
    THEN sample_http_urls
    ELSE [enabled |-> FALSE, sample_size |-> 0, failures |-> 0, results |-> 0]

LayoutPasses ==
    /\ has("has_viewport")
    /\ has("has_skip_link")
    /\ has("has_default_mobile_web_app_meta")
    /\ has("has_share_mobile_web_app_meta")
    /\ has("has_default_mobile_web_app_title")
    /\ has("has_share_mobile_web_app_title")
    /\ has("has_default_application_name_meta")
    /\ has("has_share_application_name_meta")
    /\ has("has_default_theme_color_meta")
    /\ has("has_share_theme_color_meta")
    /\ has("has_default_main_landmark_aria_label")
    /\ has("has_share_main_landmark_aria_label")

\* LinksPasses without "and (not http_check or not http_failures)"
LinksPassesIgnoringHttp(http_check) ==
    /\ ev["malformed_links"] = 0
    /\ ev["placeholder_hits"] = 0
    /\ ev["missing_internal_links"] = 0
    /\ ev["missing_liquid_internal_links"] = 0
    /\ ev["missing_liquid_link_tag_targets"] = 0

LinksPasses(http_check) ==
    /\ ev["malformed_links"] = 0
    /\ ev["placeholder_hits"] = 0
    /\ ev["missing_internal_links"] = 0
    /\ ev["missing_liquid_internal_links"] = 0
    /\ ev["missing_liquid_link_tag_targets"] = 0
    /\ (~http_check \/ http_check_result(http_check).failures = 0)

\* SeoPasses without "and not entries_missing_image_alt" (line 931)
SeoPassesIgnoringAlt ==
    /\ has("has_seo_tag")
    /\ ev["seo_missing"] = 0
    /\ has("has_large_social_image")
    /\ has("has_social_image_alt")
    /\ has("has_share_page_large_social_image")
    /\ has("has_social_alt_fallback_template")
    /\ has("has_paginated_noindex_policy")
    /\ has("has_paginated_hreflang_guard")
    /\ has_canonical_signal_consistency

SeoPasses ==
    /\ has("has_seo_tag")
    /\ ev["seo_missing"] = 0
    /\ has("has_large_social_image")
    /\ has("has_social_image_alt")
    /\ collect_entries_missing_image_alt = {}
    /\ has("has_share_page_large_social_image")
    /\ has("has_social_alt_fallback_template")
    /\ has("has_paginated_noindex_policy")
    /\ has("has_paginated_hreflang_guard")
    /\ has_canonical_signal_consistency

ContentPasses ==
    /\ ~has("formspree_blog_preconnect")
    /\ has("has_home_avatar_preload_flag")
    /\ has("has_home_avatar_priority")
    /\ has("has_home_avatar_responsive_sources")
    /\ ~has("has_theme_js_preload")
    /\ ~has("has_bootstrap_css_preload")
    /\ ~has("has_local_css_preload")
    /\ ~has("has_share_font_css_preload")
    /\ ~has("has_share_local_css_preload")
    /\ has("has_guarded_share_social_image_preload")
    /\ has("has_guarded_featured_image_preload")
    /\ has("has_guarded_adjacent_post_prefetch")
    /\ has("has_guarded_disqus_preconnect")
    /\ has("has_guarded_analytics_preconnect")
    /\ has("has_guarded_default_font_preconnect")
    /\ ~has("has_share_font_preconnect")
    /\ ~has("has_share_font_stylesheet")
    /\ ev["duplicate_resource_hint_hosts"] = 0
    /\ ev["invalid_perf_flags"] = 0
    /\ collect_posts_missing_image_dimensions = {}
    /\ collect_pages_missing_image_dimensions = {}
    /\ has_mobile_ready_apple_touch_icon
    /\ has_share_mobile_ready_apple_touch_icon
    /\ has_mobile_ready_web_manifest

SectionScore(section, http_check) ==
    LET passes ==
            CASE section = "layout_assessment" -> LayoutPasses
              [] section = "broken_links_check" -> LinksPasses(http_check)
              [] section = "seo_evaluation" -> SeoPasses
              [] section = "content_quality" -> ContentPasses
    IN  IF passes THEN HighScore[section] ELSE LowScore[section]

\* The guardrails a section stores in the report beside its findings
\* (lines 868-877, 1008-1012, 1221-1228).
ExportedGuardrails ==
    [default_mobile_web_app_meta |-> has("has_default_mobile_web_app_meta"),
     share_mobile_web_app_meta |-> has("has_share_mobile_web_app_meta"),
     default_mobile_web_app_title |-> has("has_default_mobile_web_app_title"),
     share_mobile_web_app_title |-> has("has_share_mobile_web_app_title"),
     default_application_name_meta |-> has("has_default_application_name_meta"),
     share_application_name_meta |-> has("has_share_application_name_meta"),
     default_theme_color_meta |-> has("has_default_theme_color_meta"),
     share_theme_color_meta |-> has("has_share_theme_color_meta"),
     default_main_landmark_labeled |-> has("has_default_main_landmark_aria_label"),
     share_main_landmark_labeled |-> has("has_share_main_landmark_aria_label"),
     share_page_social_image_ready |-> has("has_share_page_large_social_image"),
     social_alt_fallback_template |-> has("has_social_alt_fallback_template"),
     paginated_noindex_policy |-> has("has_paginated_noindex_policy"),
     paginated_hreflang_policy |-> has("has_paginated_hreflang_guard"),
     canonical_signal_consistency |-> has_canonical_signal_consistency,
     analytics_preconnect_policy |-> has("has_guarded_analytics_preconnect"),
     default_font_preconnect_policy |-> has("has_guarded_default_font_preconnect"),
     share_font_preconnect_policy |-> ~has("has_share_font_preconnect"),
     share_font_stylesheet_policy |-> ~has("has_share_font_stylesheet"),
     apple_touch_icon_ready |-> has_mobile_ready_apple_touch_icon,
     share_apple_touch_icon_ready |-> has_share_mobile_ready_apple_touch_icon,
     web_app_manifest_ready |-> has_mobile_ready_web_manifest,
     web_app_manifest_maskable_icon_ready |-> has_manifest_maskable_icon_192]

\* the mean cut off after the first decimal instead of rounded
TruncatedMean(total, n) == {total \div n}

Verdict(ok, yes, no) == IF ok THEN yes ELSE no

\* the findings of layout_assessment (lines 813-865)
LayoutFindings ==
    ("Mobile Experience" :>
        Verdict(has("has_viewport"),
                "Good", "Needs improvement"))
    @@ ("Mobile web app capability hints" :>
        Verdict(has("has_default_mobile_web_app_meta") /\ has("has_share_mobile_web_app_meta"),
                "Improved", "Needs tuning"))
    @@ ("Apple mobile web app title" :>
        Verdict(has("has_default_mobile_web_app_title") /\ has("has_share_mobile_web_app_title"),
                "Improved", "Needs tuning"))
    @@ ("Application name meta" :>
        Verdict(has("has_default_application_name_meta") /\ has("has_share_application_name_meta"),
                "Improved", "Needs tuning"))
    @@ ("Theme color parity" :>
        Verdict(has("has_default_theme_color_meta") /\ has("has_share_theme_color_meta"),
                "Improved", "Needs tuning"))
    @@ ("Main landmark labeling" :>
        Verdict(has("has_default_main_landmark_aria_label") /\ has("has_share_main_landmark_aria_label"),
                "Improved", "Needs tuning"))

\* f'Issues found ({n})' of lines 890 and 897
IssuesFound(n) == "Issues found (" \o ToString(n) \o ")"

\* the findings of broken_links_check (lines 888-917)
LinksFindings(http_check) ==
    ("URL Pattern Scan" :>
        IF ev["malformed_links"] = 0 /\ ev["placeholder_hits"] = 0
        THEN "Clean"
        ELSE IssuesFound(ev["malformed_links"] + ev["placeholder_hits"]))
    @@ ("Internal Link Targets" :>
        IF /\ ev["missing_internal_links"] = 0
           /\ ev["missing_liquid_internal_links"] = 0
           /\ ev["missing_liquid_link_tag_targets"] = 0
        THEN "Clean"
        ELSE IssuesFound(ev["missing_internal_links"]
                         + ev["missing_liquid_internal_links"]
                         + ev["missing_liquid_link_tag_targets"]))
    @@ ("HTTP Reachability Sample" :>
        IF ~http_check THEN "Skipped"
        ELSE IF http_check_result(http_check).failures = 0 THEN "Healthy"
        ELSE "Issues Found (" \o ToString(http_check_result(http_check).failures)
             \o ")")

\* the findings of seo_evaluation (lines 938-1005)
SeoFindings ==
    ("Meta/SEO baseline" :>
        Verdict(has("has_seo_tag") /\ ev["seo_missing"] = 0,
                "Good", "Needs improvement"))
    @@ ("Social preview image size" :>
        Verdict(has("has_large_social_image"),
                "Good", "Needs improvement"))
    @@ ("Social preview image alt" :>
        Verdict(has("has_social_image_alt"),
                "Good", "Needs improvement"))
    @@ ("Entry social image alt coverage" :>
        Verdict(collect_entries_missing_image_alt = {},
                "Good", "Needs improvement"))
    @@ ("Share page social image size" :>
        Verdict(has("has_share_page_large_social_image"),
                "Good", "Needs improvement"))
    @@ ("Social image alt fallback template" :>
        Verdict(has("has_social_alt_fallback_template"),
                "Good", "Needs improvement"))
    @@ ("Paginated archive indexing policy" :>
        Verdict(has("has_paginated_noindex_policy"),
                "Good", "Needs improvement"))
    @@ ("Paginated hreflang policy" :>
        Verdict(has("has_paginated_hreflang_guard"),
                "Good", "Needs improvement"))
    @@ ("Canonical signal consistency" :>
        Verdict(has_canonical_signal_consistency,
                "Good", "Needs improvement"))

\* the findings of content_quality (lines 1041-1213)
ContentFindings ==
    ("Performance hygiene" :>
        Verdict(~has("formspree_blog_preconnect"),
                "Improved", "Needs tuning"))
    @@ ("Homepage hero image priority" :>
        Verdict(has("has_home_avatar_preload_flag") /\ has("has_home_avatar_priority"),
                "Improved", "Needs tuning"))
    @@ ("Responsive hero image variants" :>
        Verdict(has("has_home_avatar_responsive_sources"),
                "Improved", "Needs tuning"))
    @@ ("Script preload pressure" :>
        Verdict(~has("has_theme_js_preload"),
                "Improved", "Needs tuning"))
    @@ ("Bootstrap stylesheet preload policy" :>
        Verdict(~has("has_bootstrap_css_preload"),
                "Improved", "Needs tuning"))
    @@ ("Local stylesheet preload policy" :>
        Verdict(~has("has_local_css_preload"),
                "Improved", "Needs tuning"))
    @@ ("Share layout stylesheet preload policy" :>
        Verdict(~has("has_share_font_css_preload") /\ ~has("has_share_local_css_preload"),
                "Improved", "Needs tuning"))
    @@ ("Share page social image preload" :>
        Verdict(has("has_guarded_share_social_image_preload"),
                "Improved", "Needs tuning"))
    @@ ("Featured image preload policy" :>
        Verdict(has("has_guarded_featured_image_preload"),
                "Improved", "Needs tuning"))
    @@ ("Adjacent post prefetch policy" :>
        Verdict(has("has_guarded_adjacent_post_prefetch"),
                "Improved", "Needs tuning"))
    @@ ("Disqus preconnect policy" :>
        Verdict(has("has_guarded_disqus_preconnect"),
                "Improved", "Needs tuning"))
    @@ ("Analytics preconnect policy" :>
        Verdict(has("has_guarded_analytics_preconnect"),
                "Improved", "Needs tuning"))
    @@ ("Default font preconnect policy" :>
        Verdict(has("has_guarded_default_font_preconnect"),
                "Improved", "Needs tuning"))
    @@ ("Share font preconnect policy" :>
        Verdict(~has("has_share_font_preconnect"),
                "Improved", "Needs tuning"))
    @@ ("Share font stylesheet policy" :>
        Verdict(~has("has_share_font_stylesheet"),
                "Improved", "Needs tuning"))
    @@ ("Resource hint deduplication" :>
        Verdict(ev["duplicate_resource_hint_hosts"] = 0,
                "Improved", "Needs tuning"))
    @@ ("Front matter performance toggles" :>
        Verdict(ev["invalid_perf_flags"] = 0,
                "Improved", "Needs tuning"))
    @@ ("External URL volume" :>
        "Observed")
    @@ ("Post featured image dimensions" :>
        Verdict(collect_posts_missing_image_dimensions = {},
                "Improved", "Needs tuning"))
    @@ ("Page featured image dimensions" :>
        Verdict(collect_pages_missing_image_dimensions = {},
                "Improved", "Needs tuning"))
    @@ ("Apple touch icon readiness" :>
        Verdict(has_mobile_ready_apple_touch_icon,
                "Improved", "Needs tuning"))
    @@ ("Share page apple touch icon readiness" :>
        Verdict(has_share_mobile_ready_apple_touch_icon,
                "Improved", "Needs tuning"))
    @@ ("Web app manifest readiness" :>
        Verdict(has_mobile_ready_web_manifest,
                "Improved", "Needs tuning"))

\* the result of every finding of the report, by its aspect
Findings(http_check) ==
    LayoutFindings @@ LinksFindings(http_check) @@ SeoFindings @@ ContentFindings

\* round(sum(scores) / len(scores), 1), in tenths. The mean is a binary
\* float: when the exact mean lies halfway between two tenths, the float's
\* representation error decides the direction (8.35 gives 8.3, 8.05 gives
\* 8.1), so both neighbours are outcomes of a tie.
RoundedMean(total, n) ==
    LET q == total \div n
        r == total % n
    IN  IF 2 * r < n THEN {q}
        ELSE IF 2 * r > n THEN {q + 1}
        ELSE {q, q + 1}

\* The reports build_report can return.
build_report(http_check) ==
    LET score == [s \in Sections |-> SectionScore(s, http_check)]
        total == score["layout_assessment"] + score["broken_links_check"]
                 + score["seo_evaluation"] + score["content_quality"]
    IN  {[score |-> score,
          overall_score |-> o,
          max_possible_score |-> 100,
          guardrails |-> ExportedGuardrails,
          broken_links |-> broken_links,
          http_check |-> http_check_result(http_check),
          findings |-> Findings(http_check),
          missing_entry_image_alt |-> collect_entries_missing_image_alt,
          missing_post_image_dimensions |-> collect_posts_missing_image_dimensions,
          missing_page_image_dimensions |-> collect_pages_missing_image_dimensions,
          invalid_front_matter_perf_flags |-> ev["invalid_perf_flags"],
          duplicate_resource_hint_hosts |-> ev["duplicate_resource_hint_hosts"]] :
            o \in RoundedMean(total, Cardinality(Sections))}

\* the report variable before build_report returned
NoReport ==
    [score |-> [s \in Sections |-> 0],
     overall_score |-> 0,
     max_possible_score |-> 100,
     guardrails |-> [g \in DOMAIN ExportedGuardrails |-> FALSE],
     broken_links |-> 0,
     http_check |-> [enabled |-> FALSE, sample_size |-> 0, failures |-> 0,
                     results |-> 0],
     findings |-> [a \in DOMAIN Findings(FALSE) |-> ""],
     missing_entry_image_alt |-> {},
     missing_post_image_dimensions |-> {},
     missing_page_image_dimensions |-> {},
     invalid_front_matter_perf_flags |-> 0,
     duplicate_resource_hint_hosts |-> 0]

(***************************************************************************)
(* collect_strict_failures (lines 1254-1345). A failure code name=value is *)
(* the pair <<name, value>>.                                               *)
(***************************************************************************)
\* StrictChecks without the broken_links check of lines 1307-1308
StrictChecksWithoutBrokenLinks ==
    <<"default_mobile_web_app_meta", "share_mobile_web_app_meta",
      "default_mobile_web_app_title", "share_mobile_web_app_title",
      "default_application_name_meta", "share_application_name_meta",
      "default_theme_color_meta", "share_theme_color_meta",
      "default_main_landmark_labeled", "share_main_landmark_labeled",
      "missing_entry_image_alt",
      "share_page_social_image_ready", "social_alt_fallback_template",
      "paginated_noindex_policy", "paginated_hreflang_policy",
      "canonical_signal_consistency",
      "missing_post_image_dimensions", "missing_page_image_dimensions",
      "invalid_front_matter_perf_flags",
      "analytics_preconnect_policy", "default_font_preconnect_policy",
      "share_font_preconnect_policy", "share_font_stylesheet_policy",
      "apple_touch_icon_ready", "share_apple_touch_icon_ready",
      "web_app_manifest_ready", "web_app_manifest_maskable_icon_ready",
      "http_failures">>

\* the checks, in the order of lines 1287-1344
StrictChecks ==
    <<"default_mobile_web_app_meta", "share_mobile_web_app_meta",
      "default_mobile_web_app_title", "share_mobile_web_app_title",
      "default_application_name_meta", "share_application_name_meta",
      "default_theme_color_meta", "share_theme_color_meta",
      "default_main_landmark_labeled", "share_main_landmark_labeled",
      "broken_links", "missing_entry_image_alt",
      "share_page_social_image_ready", "social_alt_fallback_template",
      "paginated_noindex_policy", "paginated_hreflang_policy",
      "canonical_signal_consistency",
      "missing_post_image_dimensions", "missing_page_image_dimensions",
      "invalid_front_matter_perf_flags",
      "analytics_preconnect_policy", "default_font_preconnect_policy",
      "share_font_preconnect_policy", "share_font_stylesheet_policy",
      "apple_touch_icon_ready", "share_apple_touch_icon_ready",
      "web_app_manifest_ready", "web_app_manifest_maskable_icon_ready",
      "http_failures">>

\* the value one check reads from the report: 0 for a guardrail, the length
\* of the list for an evidence list
StrictValue(r, name) ==
    CASE name = "broken_links" -> r.broken_links
      [] name = "missing_entry_image_alt" -> Cardinality(r.missing_entry_image_alt)
      [] name = "missing_post_image_dimensions" -> Cardinality(r.missing_post_image_dimensions)
      [] name = "missing_page_image_dimensions" -> Cardinality(r.missing_page_image_dimensions)
      [] name = "invalid_front_matter_perf_flags" -> r.invalid_front_matter_perf_flags
      [] name = "http_failures" -> r.http_check.failures
      [] OTHER -> 0

\* StrictFails reading only the evidence lists, never a guardrail
StrictFailsListsOnly(r, http_check_enabled, name) ==
    CASE name \in DOMAIN r.guardrails -> FALSE
      [] name = "http_failures" -> http_check_enabled /\ r.http_check.failures > 0
      [] OTHER -> StrictValue(r, name) > 0

\* whether the check appends its failure code
StrictFails(r, http_check_enabled, name) ==
    CASE name \in DOMAIN r.guardrails -> ~r.guardrails[name]
      [] name = "http_failures" -> http_check_enabled /\ r.http_check.failures > 0
      [] OTHER -> StrictValue(r, name) > 0

collect_strict_failures(r, http_check_enabled) ==
    LET failing == SelectSeq(StrictChecks,
                             LAMBDA name : StrictFails(r, http_check_enabled, name))
    IN  [i \in 1..Len(failing) |-> <<failing[i], StrictValue(r, failing[i])>>]

(***************************************************************************)
(* main (lines 1348-1389).                                                 *)
(***************************************************************************)
\* raise SystemExit(2) of line 1389
StrictFailStatus == 2

\* parser.parse_args() of line 1372 ends the process through parser.error,
\* whose exit status is 2
UsageErrorStatus == 2

\* the exit status of an exception that leaves main() (line 1393)
UncaughtErrorStatus == 1

\* The command lines: one that argparse rejects (--http-sample abc), and
\* the accepted ones with or without --http-check and --strict.
CommandLines ==
    {[ok |-> FALSE, http_check |-> FALSE, strict |-> FALSE]}
    \cup {[ok |-> TRUE, http_check |-> h, strict |-> s] : h \in BOOLEAN, s \in BOOLEAN}

\* args = parser.parse_args()
ParseArgs ==
    /\ pc = "parse_args"
    /\ IF argv.ok
       THEN /\ pc' = "mkdir"
            /\ UNCHANGED <<exit_status, exit_cause>>
       ELSE /\ pc' = "exited"
            /\ exit_status' = UsageErrorStatus
            /\ exit_cause' = "usage_error"
    /\ UNCHANGED <<facts, ev, tree, argv, report, failures, files, reports_dir, stdout,
                   probes>>
    /\ UNCHANGED <<scanVars, imgVars, routeVars, stampVars, probeVars, fmVars, hookVars>>

\* REPORTS_DIR.mkdir(parents=True, exist_ok=True)
MakeReportsDir ==
    /\ pc = "mkdir"
    /\ reports_dir' = TRUE
    /\ pc' = "build_report"
    /\ UNCHANGED <<facts, ev, tree, argv, report, failures, exit_status, exit_cause,
                   files, stdout, probes>>
    /\ UNCHANGED <<scanVars, imgVars, routeVars, stampVars, probeVars, fmVars, hookVars>>

\* report = build_report(...); read_text of an absent required file raises,
\* and so does read_text of a scanned file that cannot be read
BuildReport ==
    /\ pc = "build_report"
    /\ IF has("required_files_readable") /\ has("scanned_files_readable")
       THEN /\ report' \in build_report(argv.http_check)
            /\ probes' = http_check_result(argv.http_check).results
            /\ pc' = "write"
            /\ UNCHANGED <<exit_status, exit_cause>>
       ELSE /\ pc' = "exited"
            /\ exit_status' = UncaughtErrorStatus
            /\ exit_cause' = "uncaught_error"
            /\ UNCHANGED <<report, probes>>
    /\ UNCHANGED <<facts, ev, tree, argv, failures, files, reports_dir, stdout>>
    /\ UNCHANGED <<scanVars, imgVars, routeVars, stampVars, probeVars, fmVars, hookVars>>

\* out.write_text(json.dumps(report, ...)); print(out)
WriteReport ==
    /\ pc = "write"
    /\ files' = Append(files, report)
    /\ stdout' = Append(stdout, "report_path")
    /\ pc' = "strict"
    /\ UNCHANGED <<facts, ev, tree, argv, report, failures, exit_status, exit_cause,
                   reports_dir, probes>>
    /\ UNCHANGED <<scanVars, imgVars, routeVars, stampVars, probeVars, fmVars, hookVars>>

\* if args.strict: failures = collect_strict_failures(...); if failures: exit 2
StrictCheck ==
    /\ pc = "strict"
    /\ LET fs == IF argv.strict
                 THEN collect_strict_failures(report, argv.http_check)
                 ELSE <<>>
       IN  /\ failures' = fs
           /\ IF fs # <<>>
              THEN /\ stdout' = Append(stdout, "STRICT_FAIL")
                   /\ exit_status' = StrictFailStatus
                   /\ exit_cause' = "strict_failure"
              ELSE /\ exit_status' = 0
                   /\ exit_cause' = "completed"
                   /\ UNCHANGED stdout
    /\ pc' = "exited"
    /\ UNCHANGED <<facts, ev, tree, argv, report, files, reports_dir, probes>>
    /\ UNCHANGED <<scanVars, imgVars, routeVars, stampVars, probeVars, fmVars, hookVars>>

\* What may differ from the all-green tree: a signal <<name, 0>> flipped, or
\* the i-th evidence item <<list, i>> of a list.
Defects ==
    {<<s, 0>> : s \in AllSignals}
    \cup {<<l, i>> : l \in TreeCounts, i \in 1..MaxDefects}

FlippedSignals(d) == {x[1] : x \in {y \in d : y[2] = 0}}

IdleRun ==
    /\ facts = GreenSignals
    /\ ev = [l \in TreeCounts |-> 0]
    /\ tree = {}
    /\ argv = [ok |-> FALSE, http_check |-> FALSE, strict |-> FALSE]
    /\ pc = "idle"
    /\ report = NoReport
    /\ failures = <<>>
    /\ exit_status = -1
    /\ exit_cause = "none"
    /\ files = <<>>
    /\ reports_dir = FALSE
    /\ stdout = <<>>
    /\ probes = 0

IdleScan ==
    /\ text = <<>>
    /\ disk = {}
    /\ routes = {}
    /\ scan_pc = "idle"
    /\ found = [malformed_links |-> <<>>, placeholder_hits |-> <<>>,
                missing_internal_links |-> <<>>]

IdleImage ==
    /\ img = <<>>
    /\ pos = 0
    /\ ipc = "idle"
    /\ marker = -1
    /\ dims = [kind |-> "idle", width |-> 0, height |-> 0]

IdleRoutes ==
    /\ rt_path = <<>>
    /\ route = <<>>
    /\ route2 = <<>>
    /\ site = {}
    /\ table = {}
    /\ rt_pc = "idle"

IdleRuns ==
    /\ clock = 0
    /\ run_pc = <<>>
    /\ stamp = <<>>
    /\ reports = {}

IdleProbe ==
    /\ server = <<>>
    /\ probe_pc = "idle"
    /\ cur = 0
    /\ requests = <<>>
    /\ results = <<>>
    /\ http_failures = <<>>
    /\ external_urls = <<>>
    /\ forms = {}
    /\ hints = {}
    /\ http_sample = 0
    /\ sampled = <<>>
    /\ http_check_out = [enabled |-> FALSE, sample_size |-> 0,
                         failures |-> <<>>, results |-> <<>>]

IdleFrontMatter ==
    /\ fm_text = <<>>
    /\ fm_key = <<>>
    /\ fm_pc = "idle"
    /\ fm_value = [found |-> FALSE, value |-> <<>>]
    /\ fm_values = <<>>
    /\ fm_invalid = <<>>

IdleHook ==
    /\ hook_pc = "idle"
    /\ hook_dir = {}
    /\ hook_env = <<>>
    /\ hook_sent = <<>>
    /\ hook_log = <<>>

\* A run starts on a tree at most MaxDefects away from the all-green tree.
Init ==
    /\ \E n \in 0..MaxDefects :
         \E t \in KSubsets(Documents, n), d \in KSubsets(Defects, MaxDefects - n) :
            /\ facts = (GreenSignals \ FlippedSignals(d))
                       \cup (FlippedSignals(d) \ GreenSignals)
            /\ ev = [l \in TreeCounts |-> Cardinality({y \in d : y[1] = l})]
            /\ tree = t
    /\ argv \in CommandLines
    /\ pc = "parse_args"
    /\ report = NoReport
    /\ failures = <<>>
    /\ exit_status = -1
    /\ exit_cause = "none"
    /\ files = <<>>
    /\ reports_dir = FALSE
    /\ stdout = <<>>
    /\ probes = 0
    /\ IdleScan
    /\ IdleImage
    /\ IdleRoutes
    /\ IdleRuns
    /\ IdleProbe
    /\ IdleFrontMatter
    /\ IdleHook

Next == ParseArgs \/ MakeReportsDir \/ BuildReport \/ WriteReport \/ StrictCheck

Spec == Init /\ [][Next]_vars

(***************************************************************************)
(* Properties of one run (specification Spec).                             *)
(***************************************************************************)
\* build_report has returned a report
ReportBuilt ==
    \/ pc \in {"write", "strict"}
    \/ pc = "exited" /\ exit_cause \in {"completed", "strict_failure"}

SomeSectionLow == \E s \in Sections : report.score[s] = LowScore[s]

FailureNames(fl) == {fl[i][1] : i \in DOMAIN fl}

FailureCodes(fl) == {fl[i] : i \in DOMAIN fl}

AllGreen ==
    /\ has("scanned_files_readable")
    /\ LayoutSignals \subseteq facts
    /\ (SeoSignals \ UnwantedSignals) \subseteq facts
    /\ (ContentSignals \ UnwantedSignals) \subseteq facts
    /\ facts \cap UnwantedSignals = {}
    /\ \A l \in EvidenceLists : ev[l] = 0
    /\ \A d \in tree : ~d.fm.image

\* the tree's only defect is one dangling internal Markdown link
OnlyOneDanglingLink ==
    /\ has("scanned_files_readable")
    /\ LayoutSignals \subseteq facts
    /\ (SeoSignals \ UnwantedSignals) \subseteq facts
    /\ (ContentSignals \ UnwantedSignals) \subseteq facts
    /\ facts \cap UnwantedSignals = {}
    /\ ev["missing_internal_links"] = 1
    /\ \A l \in EvidenceLists \ {"missing_internal_links"} : ev[l] = 0
    /\ \A d \in tree : ~d.fm.image

\* C2: in strict mode an all-green tree ends with an empty failure list and
\* exit status 0; a tree whose only defect is one dangling internal Markdown
\* link ends with exit status 2 and the failure code broken_links=1.
C2_StrictExitStatus ==
    (pc = "exited" /\ argv.ok /\ argv.strict /\ has("required_files_readable")) =>
        /\ AllGreen => (failures = <<>> /\ exit_status = 0)
        /\ OnlyOneDanglingLink =>
              (exit_status = 2 /\ <<"broken_links", 1>> \in FailureCodes(failures))

C2_Witness ==
    /\ pc = "exited"
    /\ argv.strict
    /\ OnlyOneDanglingLink
    /\ exit_status = 2
    /\ failures = << <<"broken_links", 1>> >>

\* C3, as stated: a run ended by a bad command-line argument never has the
\* exit status that a strict-mode audit failure has.
C3_UsageStatusDiffersFromStrict ==
    exit_cause = "usage_error" => exit_status # StrictFailStatus

\* C4: each section score is one of its two tiers (8.9/7.0, 9.0/6.5,
\* 9.0/7.0, 9.0/7.2), and is the high one exactly when every guardrail of the
\* section holds and every evidence list of the section is empty (links:
\* and, under --http-check, no probe failed).
C4_TwoTierScores ==
    ReportBuilt =>
        /\ report.score["layout_assessment"] \in {89, 70}
        /\ report.score["broken_links_check"] \in {90, 65}
        /\ report.score["seo_evaluation"] \in {90, 70}
        /\ report.score["content_quality"] \in {90, 72}
        /\ report.score["layout_assessment"] = 89 <=> LayoutSignals \subseteq facts
        /\ report.score["broken_links_check"] = 90 <=>
              /\ report.broken_links = 0
              /\ argv.http_check => ev["unreachable_urls"] = 0
        /\ report.score["seo_evaluation"] = 90 <=>
              /\ (SeoSignals \ UnwantedSignals) \subseteq facts
              /\ SeoSignals \cap UnwantedSignals \cap facts = {}
              /\ ev["seo_missing"] = 0
              /\ report.missing_entry_image_alt = {}
        /\ report.score["content_quality"] = 90 <=>
              /\ (ContentSignals \ (UnwantedSignals \cup {"manifest_icon_192"}))
                    \subseteq facts
              /\ ContentSignals \cap UnwantedSignals \cap facts = {}
              /\ ev["duplicate_resource_hint_hosts"] = 0
              /\ report.invalid_front_matter_perf_flags = 0
              /\ report.missing_post_image_dimensions = {}
              /\ report.missing_page_image_dimensions = {}

\* a report with one section at each tier pattern: SEO low through an
\* entry without image_alt, the others high
C4_Witness ==
    /\ ReportBuilt
    /\ report.missing_entry_image_alt # {}
    /\ report.score["seo_evaluation"] = 70
    /\ report.score["layout_assessment"] = 89
    /\ report.score["broken_links_check"] = 90

\* C5: overall_score is the mean of the four section scores rounded to one
\* decimal (a nearest tenth of the exact mean), and the section scores and
\* the overall score lie in [0, 10].
C5_OverallIsRoundedMean ==
    ReportBuilt =>
        LET total == report.score["layout_assessment"] + report.score["broken_links_check"]
                     + report.score["seo_evaluation"] + report.score["content_quality"]
            diff == 4 * report.overall_score - total
        IN  /\ diff <= 2
            /\ diff >= -2
            /\ \A s \in Sections : report.score[s] >= 0 /\ report.score[s] <= 100
            /\ report.overall_score >= 0
            /\ report.overall_score <= 100

\* the mean 8.975 of the all-high report is rounded up to 9.0
C5_Witness ==
    /\ ReportBuilt
    /\ \A s \in Sections : report.score[s] = HighScore[s]
    /\ report.overall_score = 90

\* a post directly in _posts that declares an image and neither image_alt
\* nor image_width/image_height
BarePost ==
    [folder |-> "_posts", nested |-> FALSE, suffix |-> ".md",
     fm |-> [image |-> TRUE, image_alt |-> FALSE, image_width |-> FALSE,
             image_height |-> FALSE]]

\* C8: for a tree whose one post declares an image without image_alt and
\* without image_width/image_height, the SEO section lists the post as
\* missing alt, the content section lists it as missing dimensions, and both
\* sections are scored at their lower tier.
C8_BarePostIsReported ==
    (ReportBuilt /\ tree = {BarePost}) =>
        /\ BarePost \in report.missing_entry_image_alt
        /\ BarePost \in report.missing_post_image_dimensions
        /\ report.score["seo_evaluation"] = 70
        /\ report.score["content_quality"] = 72

C8_Witness ==
    /\ ReportBuilt
    /\ tree = {BarePost}
    /\ report.missing_entry_image_alt = {BarePost}
    /\ report.missing_post_image_dimensions = {BarePost}

\* C9, as stated: every .md/.markdown/.html document under _posts, _blogs or
\* pages, at any depth, that declares an image is listed as missing
\* dimensions unless it declares both image_width and image_height, and is
\* listed as missing alt when it declares no image_alt.
C9_ImageDetectorsCoverEveryDepth ==
    ReportBuilt =>
        \A d \in tree :
            (d.suffix \in ContentSuffixes /\ d.fm.image) =>
                /\ ~(d.fm.image_width /\ d.fm.image_height) =>
                      d \in report.missing_post_image_dimensions
                            \cup report.missing_page_image_dimensions
                /\ ~d.fm.image_alt => d \in report.missing_entry_image_alt

\* C16, as stated: a read failure on one scanned file never aborts the
\* scan; a run whose required files can be read still produces its report.
C16_ReadFailureNeverAborts ==
    (pc = "exited" /\ argv.ok /\ has("required_files_readable")) =>
        /\ exit_cause # "uncaught_error"
        /\ report # NoReport
        /\ files = <<report>>

\* C17, as stated: nothing is created or written before the report object
\* is built; a run that raises while building leaves nothing behind.
C17_NoWriteBeforeReport ==
    report = NoReport => (~reports_dir /\ files = <<>>)

(***************************************************************************)
(* The text detectors, character by character. A text is a sequence of     *)
(* one-character strings.                                                  *)
(***************************************************************************)
\* Bounds: the number of tokens a scanned URL text and the target of a
\* scanned Markdown link are put together from.
MaxUrlTokens == 5

MaxLinkTokens == 4

RECURSIVE TokenTexts(_, _)
\* the texts put together from at most k tokens of the set T
TokenTexts(T, k) ==
    IF k = 0 THEN {<<>>}
    ELSE LET P == TokenTexts(T, k - 1) IN P \cup {p \o t : p \in P, t \in T}

Whitespace == {" ", "\n", "\t"}

\* the characters \w matches
WordChars ==
    {"a", "b", "c", "d", "e", "f", "g", "h", "i", "j", "k", "l", "m", "n", "o",
     "p", "q", "r", "s", "t", "u", "v", "w", "x", "y", "z",
     "A", "B", "C", "D", "E", "F", "G", "H", "I", "J", "K", "L", "M", "N", "O",
     "P", "Q", "R", "S", "T", "U", "V", "W", "X", "Y", "Z",
     "0", "1", "2", "3", "4", "5", "6", "7", "8", "9", "_"}

\* the word w stands in t at index i
IsAt(t, i, w) ==
    /\ i >= 1
    /\ i + Len(w) - 1 <= Len(t)
    /\ \A k \in 1..Len(w) : t[i + k - 1] = w[k]

StartsWith(t, w) == IsAt(t, 1, w)

EndsWith(t, w) == IsAt(t, Len(t) - Len(w) + 1, w)

\* https?:// at index i: the length matched, 0 for no match
ProtocolAt(t, i) ==
    IF IsAt(t, i, <<"h", "t", "t", "p", "s", ":", "/", "/">>) THEN 8
    ELSE IF IsAt(t, i, <<"h", "t", "t", "p", ":", "/", "/">>) THEN 7
    ELSE 0

RECURSIVE RunEnd(_, _, _)
\* the last index of the longest run of characters outside the set stop that
\* starts at index i (i - 1 when the run is empty)
RunEnd(t, i, stop) ==
    IF i > Len(t) \/ t[i] \in stop THEN i - 1 ELSE RunEnd(t, i + 1, stop)

SetMax(S) == CHOOSE x \in S : \A y \in S : y <= x

\* DUP_PROTOCOL_RE = https?://[^\s\)\]]*https?:// matched at index i: the
\* index of the last character matched, 0 for no match. The greedy class
\* runs to the last protocol that the run of allowed characters reaches.
DupProtocolEnd(t, i) ==
    LET pl == ProtocolAt(t, i)
        last == RunEnd(t, i + pl, Whitespace \cup {")", "]"})
        seconds == {j \in (i + pl)..(last + 1) : ProtocolAt(t, j) > 0}
    IN  IF pl = 0 \/ seconds = {} THEN 0
        ELSE SetMax(seconds) + ProtocolAt(t, SetMax(seconds)) - 1

\* \b at index i: between the characters i - 1 and i
WordBoundary(t, i) ==
    LET IsWord(k) == k >= 1 /\ k <= Len(t) /\ t[k] \in WordChars
    IN  IsWord(i - 1) # IsWord(i)

\* PLACEHOLDER_RE with TODO and TBD matched without the word boundaries
PlaceholderEndNoBoundary(t, i) ==
    CASE IsAt(t, i, <<"e", "x", "a", "m", "p", "l", "e", ".", "c", "o", "m">>) -> i + 10
      [] IsAt(t, i, <<"l", "o", "c", "a", "l", "h", "o", "s", "t">>) -> i + 8
      [] IsAt(t, i, <<"1", "2", "7", ".", "0", ".", "0", ".", "1">>) -> i + 8
      [] IsAt(t, i, <<"T", "O", "D", "O">>) -> i + 3
      [] IsAt(t, i, <<"T", "B", "D">>) -> i + 2
      [] OTHER -> 0

\* PLACEHOLDER_RE = example\.com|localhost|127\.0\.0\.1|\bTODO\b|\bTBD\b
\* matched at index i: the index of the last character matched, 0 for none
PlaceholderEnd(t, i) ==
    CASE IsAt(t, i, <<"e", "x", "a", "m", "p", "l", "e", ".", "c", "o", "m">>) -> i + 10
      [] IsAt(t, i, <<"l", "o", "c", "a", "l", "h", "o", "s", "t">>) -> i + 8
      [] IsAt(t, i, <<"1", "2", "7", ".", "0", ".", "0", ".", "1">>) -> i + 8
      [] IsAt(t, i, <<"T", "O", "D", "O">>) /\ WordBoundary(t, i) /\ WordBoundary(t, i + 4) -> i + 3
      [] IsAt(t, i, <<"T", "B", "D">>) /\ WordBoundary(t, i) /\ WordBoundary(t, i + 3) -> i + 2
      [] OTHER -> 0

\* INTERNAL_LINK_RE = \]\((/[^)\s?#][^)\s]*) matched at index i: the index of
\* the last character matched, 0 for no match; group 1 starts at i + 2
InternalLinkEnd(t, i) ==
    IF /\ IsAt(t, i, <<"]", "(", "/">>)
       /\ i + 3 <= Len(t)
       /\ t[i + 3] \notin (Whitespace \cup {")", "?", "#"})
    THEN RunEnd(t, i + 4, Whitespace \cup {")"})
    ELSE 0

RECURSIVE DupProtocolMatches(_, _)
\* DUP_PROTOCOL_RE.finditer(text) from index i on: group 0 of each match
DupProtocolMatches(t, i) ==
    IF i > Len(t) THEN <<>>
    ELSE LET e == DupProtocolEnd(t, i)
         IN  IF e = 0 THEN DupProtocolMatches(t, i + 1)
             ELSE <<SubSeq(t, i, e)>> \o DupProtocolMatches(t, e + 1)

RECURSIVE PlaceholderMatches(_, _)
\* PLACEHOLDER_RE.finditer(text) from index i on: group 0 of each match
PlaceholderMatches(t, i) ==
    IF i > Len(t) THEN <<>>
    ELSE LET e == PlaceholderEnd(t, i)
         IN  IF e = 0 THEN PlaceholderMatches(t, i + 1)
             ELSE <<SubSeq(t, i, e)>> \o PlaceholderMatches(t, e + 1)

RECURSIVE InternalLinkMatches(_, _)
\* INTERNAL_LINK_RE.finditer(text) from index i on: group 1 of each match
InternalLinkMatches(t, i) ==
    IF i > Len(t) THEN <<>>
    ELSE LET e == InternalLinkEnd(t, i)
         IN  IF e = 0 THEN InternalLinkMatches(t, i + 1)
             ELSE <<SubSeq(t, i + 2, e)>> \o InternalLinkMatches(t, e + 1)

RECURSIVE SplitHead(_, _)
\* s.split(c, 1)[0]: the part of s before the first c
SplitHead(s, c) ==
    IF s = <<>> \/ Head(s) = c THEN <<>> ELSE <<Head(s)>> \o SplitHead(Tail(s), c)

RECURSIVE LStrip(_, _)
\* s.lstrip(c)
LStrip(s, c) == IF s # <<>> /\ Head(s) = c THEN LStrip(Tail(s), c) ELSE s

RECURSIVE RStrip(_, _)
\* s.rstrip(c)
RStrip(s, c) ==
    IF s # <<>> /\ s[Len(s)] = c THEN RStrip(SubSeq(s, 1, Len(s) - 1), c) ELSE s

normalize_route(path) ==
    IF path = <<>> THEN <<"/">>
    ELSE LET p == IF Head(path) # "/" THEN <<"/">> \o path ELSE path
             stem == SubSeq(p, 1, Len(p) - 5)
         IN  IF p # <<"/">> /\ p[Len(p)] = "/" THEN p
             ELSE IF EndsWith(p, <<".", "h", "t", "m", "l">>)
                  THEN (IF stem # <<>> THEN stem \o <<"/">> ELSE <<"/">>)
                  ELSE p \o <<"/">>

\* (ROOT / rel).exists(): the empty path is ROOT itself, and pathlib drops
\* trailing slashes
PathExists(rel) == RStrip(rel, "/") = <<>> \/ RStrip(rel, "/") \in disk

\* internal_target_exists without the /assets/ exemption of line 146
InternalTargetExistsNoAssets(raw_path, known_routes) ==
    LET link_path == SplitHead(SplitHead(raw_path, "#"), "?")
    IN  \/ link_path = <<>>
        \/ PathExists(LStrip(link_path, "/"))
        \/ normalize_route(link_path) \in known_routes

internal_target_exists(raw_path, known_routes) ==
    LET link_path == SplitHead(SplitHead(raw_path, "#"), "?")
    IN  \/ link_path = <<>>
        \/ StartsWith(link_path, <<"/", "a", "s", "s", "e", "t", "s", "/">>)
        \/ PathExists(LStrip(link_path, "/"))
        \/ normalize_route(link_path) \in known_routes

\* an evidence item of the scanned file
Evidence(issue, value) == [issue |-> issue, value |-> value]

\* collect_missing_internal_links, the body of the loop over the files
\* (lines 166-178), for the scanned file
ScanInternalLinks ==
    /\ scan_pc = "internal_links"
    /\ LET raws == InternalLinkMatches(text, 1)
           missing == SelectSeq(raws, LAMBDA raw : ~internal_target_exists(raw, routes))
       IN  found' = [found EXCEPT !.missing_internal_links =
                        [i \in 1..Len(missing) |->
                            Evidence("internal link target not found", missing[i])]]
    /\ scan_pc' = "patterns"
    /\ UNCHANGED <<text, disk, routes>>
    /\ UNCHANGED <<runVars, imgVars, routeVars, stampVars, probeVars, fmVars, hookVars>>

\* build_report, the body of the loop over iter_files() (lines 647-668), for
\* the scanned file
ScanPatterns ==
    /\ scan_pc = "patterns"
    /\ LET dups == DupProtocolMatches(text, 1)
           marks == PlaceholderMatches(text, 1)
       IN  found' = [found EXCEPT
                        !.malformed_links =
                            [i \in 1..Len(dups) |->
                                Evidence("duplicated protocol in URL", dups[i])],
                        !.placeholder_hits =
                            [i \in 1..Len(marks) |->
                                Evidence("placeholder or local-only marker", marks[i])]]
    /\ scan_pc' = "done"
    /\ UNCHANGED <<text, disk, routes>>
    /\ UNCHANGED <<runVars, imgVars, routeVars, stampVars, probeVars, fmVars, hookVars>>

NothingFound ==
    [malformed_links |-> <<>>, placeholder_hits |-> <<>>, missing_internal_links |-> <<>>]

\* the tokens of the scanned URL texts
UrlTokens ==
    {<<"h", "t", "t", "p", "s", ":", "/", "/">>,
     <<"g", "o", "o", "d", ".", "e", "x", "a", "m", "p", "l", "e", "/", "a">>,
     <<"T", "O", "D", "O">>,
     <<"b", "a", "d", ".", "e", "x", "a", "m", "p", "l", "e">>,
     <<" ">>}

\* the tokens of the targets of the scanned Markdown links
LinkTokens ==
    {<<"/">>, <<"a", "s", "s", "e", "t", "s">>, <<"a", "b", "o", "u", "t">>,
     <<".", "h", "t", "m", "l">>, <<"#", "f">>, <<"?", "q">>}

\* the files that may exist under the site root, and the routes the route
\* table may hold besides the root
DiskFiles == {<<"a", "b", "o", "u", "t", ".", "h", "t", "m", "l">>, <<"a", "s", "s", "e", "t", "s", "/", "a", "b", "o", "u", "t">>}

DocumentRoutes == {<<"/", "a", "b", "o", "u", "t", "/">>}

\* The scanned file holds a URL text, or one Markdown link.
InitScan ==
    /\ \/ /\ text \in TokenTexts(UrlTokens, MaxUrlTokens)
          /\ disk = {}
          /\ routes = {<<"/">>}
       \/ /\ \E target \in TokenTexts(LinkTokens, MaxLinkTokens) :
                text = <<"[", "t", "]", "(">> \o target \o <<")">>
          /\ disk \in {{}, DiskFiles}
          /\ \E rs \in SUBSET DocumentRoutes : routes = {<<"/">>} \cup rs
    /\ scan_pc = "internal_links"
    /\ found = NothingFound
    /\ IdleRun
    /\ IdleImage
    /\ IdleRoutes
    /\ IdleRuns
    /\ IdleProbe
    /\ IdleFrontMatter
    /\ IdleHook

NextScan == ScanInternalLinks \/ ScanPatterns

SpecScan == InitScan /\ [][NextScan]_vars

(***************************************************************************)
(* Properties of the text detectors (specification SpecScan).              *)
(***************************************************************************)
RECURSIVE MarkdownTargets(_, _)
\* the targets of the Markdown links ](/...) of a text from index i on: each
\* runs from the slash to the closing parenthesis or the next whitespace
MarkdownTargets(t, i) ==
    IF i > Len(t) THEN <<>>
    ELSE IF IsAt(t, i, <<"]", "(", "/">>)
         THEN LET e == RunEnd(t, i + 2, Whitespace \cup {")"})
              IN  <<SubSeq(t, i + 2, e)>> \o MarkdownTargets(t, e + 1)
         ELSE MarkdownTargets(t, i + 1)

RECURSIVE WithoutFragmentAndQuery(_)
\* a link target up to its first # or ?
WithoutFragmentAndQuery(raw) ==
    IF raw = <<>> \/ Head(raw) \in {"#", "?"} THEN <<>>
    ELSE <<Head(raw)>> \o WithoutFragmentAndQuery(Tail(raw))

\* the three conditions of C6 on a link target
DanglingTarget(raw) ==
    LET path == WithoutFragmentAndQuery(raw)
    IN  /\ ~StartsWith(path, <<"/", "a", "s", "s", "e", "t", "s", "/">>)
        /\ ~PathExists(LStrip(path, "/"))
        /\ normalize_route(path) \notin routes

\* C6: a Markdown link ](/path) of a scanned file is reported as a missing
\* internal link exactly when its path, #fragment and ?query removed, is not
\* under /assets/, names no existing file under the site root, and its
\* normalized route is not in the route table; a link under /assets/ is
\* never reported.
C6_MissingLinkExactly ==
    scan_pc \in {"patterns", "done"} =>
        /\ [i \in 1..Len(found.missing_internal_links) |->
                found.missing_internal_links[i].value]
              = SelectSeq(MarkdownTargets(text, 1), DanglingTarget)
        /\ \A i \in 1..Len(found.missing_internal_links) :
              ~StartsWith(found.missing_internal_links[i].value, <<"/", "a", "s", "s", "e", "t", "s", "/">>)

\* the link /about#f is reported: no file about and no route /about/
C6_Witness ==
    /\ scan_pc = "done"
    /\ text = <<"[", "t", "]", "(", "/", "a", "b", "o", "u", "t", "#", "f", ")">>
    /\ Len(found.missing_internal_links) = 1
    /\ found.missing_internal_links[1].value = <<"/", "a", "b", "o", "u", "t", "#", "f">>

\* the text of C7
GluedUrls == <<"h", "t", "t", "p", "s", ":", "/", "/", "g", "o", "o", "d", ".", "e", "x", "a", "m", "p", "l", "e", "/", "a", "T", "O", "D", "O", "h", "t", "t", "p", "s", ":", "/", "/", "b", "a", "d", ".", "e", "x", "a", "m", "p", "l", "e">>

MaxJpegBody == 4

PngSignature == <<137, 80, 78, 71, 13, 10, 26, 10>>

\* the chunk length and chunk type that open the IHDR chunk
IhdrOpening == <<0, 0, 0, 13, 73, 72, 68, 82>>

JpegSoi == <<255, 216>>

\* the Start-Of-Frame markers of line 401
SofMarkers == {192, 193, 194, 195, 197, 198, 199, 201, 202, 203, 205, 206, 207}

\* f.read(n) at offset p: the bytes returned (fewer than n at the end of the
\* file, none beyond it)
Read(p, n) ==
    LET last == IF p + n <= Len(img) THEN p + n ELSE Len(img)
    IN  IF p >= Len(img) THEN <<>> ELSE SubSeq(img, p + 1, last)

\* struct.unpack('>H', b)
BigEndian16(b) == b[1] * 256 + b[2]

\* struct.unpack('<I', b), the bytes taken in the opposite order
LittleEndian32(b) == ((b[4] * 256 + b[3]) * 256 + b[2]) * 256 + b[1]

\* struct.unpack('>I', b)
BigEndian32(b) == ((b[1] * 256 + b[2]) * 256 + b[3]) * 256 + b[4]

Outcome(kind, w, h) == [kind |-> kind, width |-> w, height |-> h]

\* sig = f.read(12); f.seek(0); the two startswith tests
ReadSignature ==
    /\ ipc = "signature"
    /\ LET sig == Read(0, 12)
       IN  IF IsAt(sig, 1, PngSignature)
           THEN /\ ipc' = "png_header"
                /\ pos' = 0
                /\ UNCHANGED dims
           ELSE IF IsAt(sig, 1, JpegSoi)
                THEN /\ ipc' = "jpeg_scan"
                     /\ pos' = Len(Read(0, 2))
                     /\ UNCHANGED dims
                ELSE /\ ipc' = "done"
                     /\ pos' = 0
                     /\ dims' = Outcome("null", 0, 0)
    /\ UNCHANGED <<img, marker>>
    /\ UNCHANGED <<runVars, scanVars, routeVars, stampVars, probeVars, fmVars, hookVars>>

\* f.read(8); f.read(8); struct.unpack('>II', f.read(8)): unpack raises
\* struct.error on fewer than 8 bytes
ReadPngHeader ==
    /\ ipc = "png_header"
    /\ LET p == pos + Len(Read(pos, 8))
           q == p + Len(Read(p, 8))
           b == Read(q, 8)
       IN  /\ pos' = q + Len(b)
           /\ dims' = IF Len(b) = 8
                      THEN Outcome("size", BigEndian32(SubSeq(b, 1, 4)),
                                   BigEndian32(SubSeq(b, 5, 8)))
                      ELSE Outcome("raise", 0, 0)
    /\ ipc' = "done"
    /\ UNCHANGED <<img, marker>>
    /\ UNCHANGED <<runVars, scanVars, routeVars, stampVars, probeVars, fmVars, hookVars>>

\* marker_start = f.read(1), the top of the while loop (lines 393-397)
JpegReadMarkerStart ==
    /\ ipc = "jpeg_scan"
    /\ LET b == Read(pos, 1)
       IN  /\ pos' = pos + Len(b)
           /\ IF b = <<>>
              THEN /\ ipc' = "done"
                   /\ dims' = Outcome("null", 0, 0)
              ELSE /\ ipc' = IF b[1] = 255 THEN "jpeg_marker" ELSE "jpeg_scan"
                   /\ UNCHANGED dims
    /\ UNCHANGED <<img, marker>>
    /\ UNCHANGED <<runVars, scanVars, routeVars, stampVars, probeVars, fmVars, hookVars>>

\* marker = f.read(1), repeated while it is FF (lines 398-400); marker -1
\* stands for the empty read at the end of the file
JpegReadMarker ==
    /\ ipc = "jpeg_marker"
    /\ LET b == Read(pos, 1)
       IN  /\ pos' = pos + Len(b)
           /\ marker' = IF b = <<>> THEN -1 ELSE b[1]
           /\ ipc' = IF b # <<>> /\ b[1] = 255 THEN "jpeg_marker" ELSE "jpeg_segment"
    /\ UNCHANGED <<img, dims>>
    /\ UNCHANGED <<runVars, scanVars, routeVars, stampVars, probeVars, fmVars, hookVars>>

\* a Start-Of-Frame marker (lines 401-405): f.read(2), f.read(1), then
\* struct.unpack('>HH', f.read(4)), which raises on fewer than 4 bytes
JpegReadFrame ==
    /\ ipc = "jpeg_segment"
    /\ marker \in SofMarkers
    /\ LET p == pos + Len(Read(pos, 2))
           q == p + Len(Read(p, 1))
           b == Read(q, 4)
       IN  /\ pos' = q + Len(b)
           /\ dims' = IF Len(b) = 4
                      THEN Outcome("size", BigEndian16(SubSeq(b, 3, 4)),
                                   BigEndian16(SubSeq(b, 1, 2)))
                      ELSE Outcome("raise", 0, 0)
    /\ ipc' = "done"
    /\ UNCHANGED <<img, marker>>
    /\ UNCHANGED <<runVars, scanVars, routeVars, stampVars, probeVars, fmVars, hookVars>>

\* JpegStandaloneMarker seeking back over the marker it has read
JpegStandaloneMarkerRewinding ==
    /\ ipc = "jpeg_segment"
    /\ marker \in {216, 217}
    /\ ipc' = "jpeg_scan"
    /\ pos' = pos - 2
    /\ UNCHANGED <<img, marker, dims>>
    /\ UNCHANGED <<runVars, scanVars, routeVars, stampVars, probeVars, fmVars, hookVars>>

\* a D8 or D9 marker: continue (lines 406-407)
JpegStandaloneMarker ==
    /\ ipc = "jpeg_segment"
    /\ marker \in {216, 217}
    /\ ipc' = "jpeg_scan"
    /\ UNCHANGED <<img, pos, marker, dims>>
    /\ UNCHANGED <<runVars, scanVars, routeVars, stampVars, probeVars, fmVars, hookVars>>

\* JpegSkipSegment without the f.seek of line 414: the scan goes on inside
\* the payload
JpegSkipSegmentWithoutSeek ==
    /\ ipc = "jpeg_segment"
    /\ marker \notin SofMarkers \cup {216, 217}
    /\ LET b == Read(pos, 2)
       IN  IF Len(b) # 2 \/ BigEndian16(b) < 2
           THEN /\ pos' = pos + Len(b)
                /\ ipc' = "done"
                /\ dims' = Outcome("null", 0, 0)
           ELSE /\ pos' = pos + 2
                /\ ipc' = "jpeg_scan"
                /\ UNCHANGED dims
    /\ UNCHANGED <<img, marker>>
    /\ UNCHANGED <<runVars, scanVars, routeVars, stampVars, probeVars, fmVars, hookVars>>

\* any other marker: read the segment length and seek over the segment
\* (lines 408-414)
JpegSkipSegment ==
    /\ ipc = "jpeg_segment"
    /\ marker \notin SofMarkers \cup {216, 217}
    /\ LET b == Read(pos, 2)
       IN  IF Len(b) # 2 \/ BigEndian16(b) < 2
           THEN /\ pos' = pos + Len(b)
                /\ ipc' = "done"
                /\ dims' = Outcome("null", 0, 0)
           ELSE /\ pos' = pos + 2 + (BigEndian16(b) - 2)
                /\ ipc' = "jpeg_scan"
                /\ UNCHANGED dims
    /\ UNCHANGED <<img, marker>>
    /\ UNCHANGED <<runVars, scanVars, routeVars, stampVars, probeVars, fmVars, hookVars>>

\* the bytes the scanned files are put together from
JpegBytes == {255, 216, 192, 224, 0, 3}

DimensionBytes == {0, 1, 127}

RECURSIVE ByteStrings(_, _)
\* the byte sequences over B of at most k bytes
ByteStrings(B, k) ==
    IF k = 0 THEN {<<>>}
    ELSE LET P == ByteStrings(B, k - 1) IN P \cup {p \o <<b>> : p \in P, b \in B}

Prefixes(s) == {SubSeq(s, 1, n) : n \in 0..Len(s)}

\* a PNG file up to the end of the width and height of its IHDR chunk
PngFiles ==
    {PngSignature \o IhdrOpening \o <<0, 0, w1, w2, 0, 0, h1, h2>> :
        w1 \in DimensionBytes, w2 \in DimensionBytes,
        h1 \in DimensionBytes, h2 \in DimensionBytes}

\* a whole PNG file header: signature, IHDR chunk with width, height and
\* the five bytes that follow them (bit depth 8, colour type 6, 0, 0, 0)
WholePngFiles ==
    {PngSignature \o IhdrOpening \o <<w1, w2, w3, w4, h1, 0, 0, h4>>
                  \o <<8, 6, 0, 0, 0>> :
        w1 \in DimensionBytes, w2 \in DimensionBytes,
        w3 \in DimensionBytes, w4 \in DimensionBytes,
        h1 \in DimensionBytes, h4 \in DimensionBytes}

\* a JPEG file: SOI, an APP0 segment of two payload bytes or none, and a
\* baseline frame header
JpegFiles ==
    {JpegSoi \o app \o <<255, 192, 0, 11, 8, 0, h, 0, w>> :
        app \in {<<>>, <<255, 224, 0, 4, 255, 192>>},
        h \in DimensionBytes, w \in DimensionBytes}

\* Bound: the number of segments that precede the frame header of a whole
\* JPEG file.
MaxSegments == 2

\* the payloads of those segments: none, two bytes that read as an SOF
\* marker, and bytes that read as a whole frame header of size 1 x 1
Payloads == {<<>>, <<255, 192>>, <<255, 192, 0, 11, 8, 0, 1, 0, 1>>}

\* an APP0 or COM segment: marker, declared length (its own two bytes
\* included), payload
Segments == {<<255, m, 0, Len(pl) + 2>> \o pl : m \in {224, 254}, pl \in Payloads}

RECURSIVE SegmentChains(_)
\* the byte strings made of at most k segments
SegmentChains(k) ==
    IF k = 0 THEN {<<>>}
    ELSE LET P == SegmentChains(k - 1) IN P \cup {p \o g : p \in P, g \in Segments}

\* a frame header of one component: marker, length 11, precision, height,
\* width, component table
FrameHeader(m, h1, h2, w1, w2) ==
    <<255, m, 0, 11, 8, h1, h2, w1, w2, 1, 1, 17, 0>>

\* a whole JPEG file: SOI, segments, the frame header, and after it nothing
\* or a second frame header of another size
FramedJpegFiles ==
    {JpegSoi \o chain \o FrameHeader(192, h1, h2, w1, w2) \o rest :
        chain \in SegmentChains(MaxSegments),
        h1 \in {0, 1}, h2 \in {2, 127}, w1 \in {0, 1}, w2 \in {0, 127},
        rest \in {<<>>, FrameHeader(194, 0, 9, 0, 9)}}

\* The file is a PNG or JPEG file cut off anywhere, FF D8 followed by a few
\* arbitrary bytes, or one or two bytes that open no image.
InitImage ==
    /\ \/ \E f \in PngFiles \cup JpegFiles : img \in Prefixes(f)
       \/ \E body \in ByteStrings(JpegBytes, MaxJpegBody) : img = JpegSoi \o body
       \/ img \in ByteStrings(JpegBytes, 2)
       \/ img \in FramedJpegFiles
       \/ img \in WholePngFiles
    /\ pos = 0
    /\ ipc = "signature"
    /\ marker = -1
    /\ dims = Outcome("running", 0, 0)
    /\ IdleRun
    /\ IdleScan
    /\ IdleRoutes
    /\ IdleRuns
    /\ IdleProbe
    /\ IdleFrontMatter
    /\ IdleHook

NextImage ==
    \/ ReadSignature
    \/ ReadPngHeader
    \/ JpegReadMarkerStart
    \/ JpegReadMarker
    \/ JpegReadFrame
    \/ JpegStandaloneMarker
    \/ JpegSkipSegment

SpecImage == InitImage /\ [][NextImage]_vars

\* get_image_dimensions is straight-line code and loops of one thread: as
\* long as a step is possible the interpreter takes one.
SpecImageFair == SpecImage /\ WF_vars(NextImage)

(***************************************************************************)
(* Properties of get_image_dimensions (specification SpecImage).           *)
(***************************************************************************)
\* a PNG file that ends before the last byte of its IHDR width and height
PngCutShort == IsAt(img, 1, PngSignature) /\ Len(img) < 24

\* C10, as stated: get_image_dimensions never raises, and returns null for
\* a PNG file cut off before the end of its width and height.
C10_NeverRaises ==
    /\ dims.kind # "raise"
    /\ (ipc = "done" /\ PngCutShort) => dims.kind = "null"

RECURSIVE FirstFrameAt(_, _)
\* the offset of the first SOF marker in marker order, following the
\* segments from the marker at offset p by their declared lengths; -1 when
\* the bytes at p are not a marker followed by a length
FirstFrameAt(f, p) ==
    IF p + 4 > Len(f) \/ f[p + 1] # 255 \/ f[p + 2] \in {255, 216, 217} THEN -1
    ELSE IF f[p + 2] \in SofMarkers THEN p
    ELSE LET n == f[p + 3] * 256 + f[p + 4]
         IN  IF n < 2 THEN -1 ELSE FirstFrameAt(f, p + 2 + n)

\* the file is SOI, segments, and a frame header that is there in full
HasWholeFrame ==
    /\ IsAt(img, 1, JpegSoi)
    /\ FirstFrameAt(img, 2) >= 0
    /\ FirstFrameAt(img, 2) + 9 <= Len(img)

\* C11: for a JPEG file, get_image_dimensions returns (width, height) of
\* the first SOF marker in marker order: the segments before it are skipped
\* by their declared length, so a payload that reads as an SOF marker is not
\* taken, and the stored height-then-width is swapped.
C11_FirstFrameInMarkerOrder ==
    (ipc = "done" /\ HasWholeFrame) =>
        LET q == FirstFrameAt(img, 2)
        IN  dims = [kind |-> "size",
                    width |-> img[q + 8] * 256 + img[q + 9],
                    height |-> img[q + 6] * 256 + img[q + 7]]

\* a COM segment whose payload reads as a 1 x 1 frame header, then the
\* frame header of a 383 x 258 image, then a second frame header
C11_Witness ==
    /\ ipc = "done"
    /\ img = JpegSoi \o <<255, 254, 0, 11, 255, 192, 0, 11, 8, 0, 1, 0, 1>>
                    \o FrameHeader(192, 1, 2, 1, 127) \o FrameHeader(194, 0, 9, 0, 9)
    /\ dims = [kind |-> "size", width |-> 383, height |-> 258]

\* the file opens with the PNG signature and an IHDR chunk whose width and
\* height are there in full
HasWholeIhdr ==
    /\ IsAt(img, 1, PngSignature)
    /\ IsAt(img, 9, IhdrOpening)
    /\ Len(img) >= 24

\* C12: for a PNG file with the 8-byte signature and a well-formed IHDR
\* chunk, get_image_dimensions returns the big-endian 32-bit width and
\* height stored at bytes 16..23.
C12_PngSizeAtKnownOffset ==
    (ipc = "done" /\ HasWholeIhdr) =>
        dims = [kind |-> "size",
                width |-> img[17] * 16777216 + img[18] * 65536 + img[19] * 256 + img[20],
                height |-> img[21] * 16777216 + img[22] * 65536 + img[23] * 256 + img[24]]

\* width 00 01 7F 00 = 98048, height 7F 00 00 01 = 2130706433
C12_Witness ==
    /\ ipc = "done"
    /\ img = PngSignature \o IhdrOpening \o <<0, 1, 127, 0, 127, 0, 0, 1>>
                         \o <<8, 6, 0, 0, 0>>
    /\ dims = [kind |-> "size", width |-> 98048, height |-> 2130706433]

(***************************************************************************)
(* normalize_route (lines 100-110) applied to a path and then to its own   *)
(* result, and collect_known_routes (lines 113-141) over the files of      *)
(* pages/, _posts/ and _blogs/.                                            *)
(***************************************************************************)
\* Bound: the number of tokens a path given to normalize_route is made of.
MaxRouteTokens == 3

\* Bound: the number of files in the three folders together.
MaxSiteFiles == 2

RouteTokens == {<<"/">>, <<"a", "b", "o", "u", "t">>, <<".", "h", "t", "m", "l">>}

\* route = normalize_route(path)
NormalizeRoute ==
    /\ rt_pc = "normalize"
    /\ route' = normalize_route(rt_path)
    /\ rt_pc' = "again"
    /\ UNCHANGED <<rt_path, route2, site, table>>
    /\ UNCHANGED <<runVars, scanVars, imgVars, stampVars, probeVars, fmVars, hookVars>>

\* normalize_route applied to a route it returned
NormalizeAgain ==
    /\ rt_pc = "again"
    /\ route2' = normalize_route(route)
    /\ rt_pc' = "normalized"
    /\ UNCHANGED <<rt_path, route, site, table>>
    /\ UNCHANGED <<runVars, scanVars, imgVars, stampVars, probeVars, fmVars, hookVars>>

\* the file name stems: a page name, a dated post, a date alone, and a name
\* of four hyphen-separated words
Stems ==
    {<<"a", "b", "o", "u", "t">>,
     <<"2", "0", "2", "4", "-", "0", "1", "-", "0", "2", "-", "h", "e", "l", "l", "o">>,
     <<"2", "0", "2", "4", "-", "0", "1", "-", "0", "2">>,
     <<"m", "y", "-", "c", "o", "o", "l", "-", "n", "e", "w", "-", "p", "o", "s", "t">>}

\* the permalink of the front matter as extract_front_matter_value returns
\* it; <<>> stands for a file without one
Permalinks == {<<>>, <<"/">>, <<"a", "b", "o", "u", "t">>, <<"/", "a", "b", "o", "u", "t", ".", "h", "t", "m", "l">>}

\* the files directly in the three folders: documents of a routed suffix,
\* and one file of another suffix in each folder
SiteFiles ==
    {[folder |-> f, stem |-> st, suffix |-> ".md", permalink |-> pl] :
        f \in ContentFolders, st \in Stems, pl \in Permalinks}
    \cup {[folder |-> f, stem |-> <<"a", "b", "o", "u", "t">>, suffix |-> ".txt", permalink |-> <<>>] :
            f \in ContentFolders}

\* folder.glob('*') filtered by the suffix test of lines 117 and 128
RoutedFiles(folder) ==
    {f \in site : f.folder = folder /\ f.suffix \in ContentSuffixes}

RECURSIVE AfterHyphens(_, _)
\* s.split('-', n)[n]: what follows the n-th hyphen
AfterHyphens(s, n) ==
    IF n = 0 \/ s = <<>> THEN s
    ELSE AfterHyphens(Tail(s), IF Head(s) = "-" THEN n - 1 ELSE n)

\* lines 135-138: parts = slug.split('-', 3); the fourth part when there
\* are four
PostSlug(stem) ==
    IF Cardinality({i \in 1..Len(stem) : stem[i] = "-"}) >= 3
    THEN AfterHyphens(stem, 3)
    ELSE stem

\* the route a file adds to the table
PageRoute(f) ==
    IF f.permalink # <<>> THEN normalize_route(f.permalink)
    ELSE normalize_route(<<"/">> \o f.stem \o <<"/">>)

PostRoute(f) ==
    IF f.permalink # <<>> THEN normalize_route(f.permalink)
    ELSE normalize_route(<<"/">> \o PostSlug(f.stem) \o <<"/">>)

\* routes = {'/'} and the loop over pages/ (lines 114-124)
CollectPageRoutes ==
    /\ rt_pc = "pages"
    /\ table' = {<<"/">>} \cup {PageRoute(f) : f \in RoutedFiles("pages")}
    /\ rt_pc' = "posts"
    /\ UNCHANGED <<rt_path, route, route2, site>>
    /\ UNCHANGED <<runVars, scanVars, imgVars, stampVars, probeVars, fmVars, hookVars>>

\* the loop over _posts/ and _blogs/ (lines 126-139)
CollectPostRoutes ==
    /\ rt_pc = "posts"
    /\ table' = table \cup {PostRoute(f) :
                                f \in RoutedFiles("_posts") \cup RoutedFiles("_blogs")}
    /\ rt_pc' = "collected"
    /\ UNCHANGED <<rt_path, route, route2, site>>
    /\ UNCHANGED <<runVars, scanVars, imgVars, stampVars, probeVars, fmVars, hookVars>>

\* Either a path is normalized twice, or the route table of a site is
\* collected.
InitRoutes ==
    /\ \/ /\ rt_path \in TokenTexts(RouteTokens, MaxRouteTokens)
          /\ site = {}
          /\ rt_pc = "normalize"
       \/ /\ rt_path = <<>>
          /\ site \in KSubsets(SiteFiles, MaxSiteFiles)
          /\ rt_pc = "pages"
    /\ route = <<>>
    /\ route2 = <<>>
    /\ table = {}
    /\ IdleRun
    /\ IdleScan
    /\ IdleImage
    /\ IdleRuns
    /\ IdleProbe
    /\ IdleFrontMatter
    /\ IdleHook

NextRoutes ==
    \/ NormalizeRoute
    \/ NormalizeAgain
    \/ CollectPageRoutes
    \/ CollectPostRoutes

SpecRoutes == InitRoutes /\ [][NextRoutes]_vars

(***************************************************************************)
(* Properties of the routes (specification SpecRoutes).                    *)
(***************************************************************************)
\* C13, as stated: normalize_route is idempotent over all inputs, a
\* normalized route (the root included) is returned unchanged, and /about,
\* /about/ and /about.html all give /about/.
C13_NormalizeRouteIdempotent ==
    rt_pc = "normalized" =>
        /\ route2 = route
        /\ rt_path = <<"/">> => route = <<"/">>
        /\ rt_path \in {<<"/", "a", "b", "o", "u", "t">>, <<"/", "a", "b", "o", "u", "t", "/">>, <<"/", "a", "b", "o", "u", "t", ".", "h", "t", "m", "l">>}
              => route = <<"/", "a", "b", "o", "u", "t", "/">>

\* the slug a file without permalink is routed by
FileSlug(f) == IF f.folder = "pages" THEN f.stem ELSE PostSlug(f.stem)

AllRoutedFiles == RoutedFiles("pages") \cup RoutedFiles("_posts") \cup RoutedFiles("_blogs")

\* C14, as stated: the table holds the root; a permalink p and a file slug
\* p give the same route; every route starts and ends with a slash, and
\* the root / is the only route made of slashes alone.
C14_RouteTableNormalizedAlike ==
    rt_pc = "collected" =>
        /\ <<"/">> \in table
        /\ \A r \in table :
              /\ r # <<>>
              /\ r[1] = "/"
              /\ r[Len(r)] = "/"
              /\ r # <<"/">> => \E i \in 1..Len(r) : r[i] # "/"
        /\ \A f \in AllRoutedFiles, g \in AllRoutedFiles :
              (f.permalink # <<>> /\ g.permalink = <<>> /\ f.permalink = FileSlug(g))
                  => \E r \in table :
                        /\ r = normalize_route(f.permalink)
                        /\ r = normalize_route(<<"/">> \o FileSlug(g) \o <<"/">>)

Digits == {"0", "1", "2", "3", "4", "5", "6", "7", "8", "9"}

\* the name follows YYYY-MM-DD-title
FollowsDateConvention(stem) ==
    /\ Len(stem) >= 12
    /\ \A i \in {1, 2, 3, 4, 6, 7, 9, 10} : stem[i] \in Digits
    /\ \A i \in {5, 8, 11} : stem[i] = "-"

\* C15, as stated: a post or blog file without permalink is routed by its
\* stem without the leading date when the name follows YYYY-MM-DD-title,
\* and by its full stem otherwise.
C15_SlugStripsOnlyDates ==
    rt_pc = "collected" =>
        \A f \in RoutedFiles("_posts") \cup RoutedFiles("_blogs") :
            f.permalink = <<>> =>
                (<<"/">> \o (IF FollowsDateConvention(f.stem)
                              THEN SubSeq(f.stem, 12, Len(f.stem))
                              ELSE f.stem) \o <<"/">>) \in table

(***************************************************************************)
(* Several runs of main() on one checkout (lines 1375-1382): each builds   *)
(* its report, formats the stamp from datetime.now() and writes            *)
(* reports/site_audit_<stamp>.json. The stamp is the local wall-clock time *)
(* to the microsecond, without time zone; clock counts microseconds.       *)
(***************************************************************************)
\* Bound: the number of runs.
MaxRuns == 2

\* Bound: the latest clock value.
MaxClock == 2

Runs == 1..MaxRuns

\* report = build_report(...)
RunBuildReport(r) ==
    /\ run_pc[r] = "build_report"
    /\ run_pc' = [run_pc EXCEPT ![r] = "stamp"]
    /\ UNCHANGED <<clock, stamp, reports>>
    /\ UNCHANGED <<runVars, scanVars, imgVars, routeVars, probeVars, fmVars, hookVars>>

\* stamp = dt.datetime.now().strftime('%Y%m%d_%H%M%S_%f')
RunStamp(r) ==
    /\ run_pc[r] = "stamp"
    /\ stamp' = [stamp EXCEPT ![r] = clock]
    /\ run_pc' = [run_pc EXCEPT ![r] = "write"]
    /\ UNCHANGED <<clock, reports>>
    /\ UNCHANGED <<runVars, scanVars, imgVars, routeVars, probeVars, fmVars, hookVars>>

\* out.write_text(...): creates the file or replaces its content
RunWrite(r) ==
    /\ run_pc[r] = "write"
    /\ reports' = {f \in reports : f.name # stamp[r]}
                  \cup {[name |-> stamp[r], run |-> r]}
    /\ run_pc' = [run_pc EXCEPT ![r] = "exited"]
    /\ UNCHANGED <<clock, stamp>>
    /\ UNCHANGED <<runVars, scanVars, imgVars, routeVars, probeVars, fmVars, hookVars>>

\* a microsecond passes
ClockAdvance ==
    /\ clock < MaxClock
    /\ clock' = clock + 1
    /\ UNCHANGED <<run_pc, stamp, reports>>
    /\ UNCHANGED <<runVars, scanVars, imgVars, routeVars, probeVars, fmVars, hookVars>>

\* the local time is set back (the end of daylight saving time, a clock
\* correction): datetime.now() is not monotonic
ClockSetBack ==
    /\ clock > 0
    /\ clock' = clock - 1
    /\ UNCHANGED <<run_pc, stamp, reports>>
    /\ UNCHANGED <<runVars, scanVars, imgVars, routeVars, probeVars, fmVars, hookVars>>

InitRuns ==
    /\ clock \in 0..MaxClock
    /\ run_pc = [r \in Runs |-> "build_report"]
    /\ stamp = [r \in Runs |-> -1]
    /\ reports = {}
    /\ IdleRun
    /\ IdleScan
    /\ IdleImage
    /\ IdleRoutes
    /\ IdleProbe
    /\ IdleFrontMatter
    /\ IdleHook

NextRuns ==
    \/ \E r \in Runs : RunBuildReport(r)
    \/ \E r \in Runs : RunStamp(r)
    \/ \E r \in Runs : RunWrite(r)
    \/ ClockAdvance
    \/ ClockSetBack

SpecRuns == InitRuns /\ [][NextRuns]_vars

(***************************************************************************)
(* Properties of successive runs (specification SpecRuns).                 *)
(***************************************************************************)
\* C18, as stated: any two runs get different file names, and no run
\* overwrites the report an earlier run wrote.
C18_ReportNamesUnique ==
    /\ \A r1 \in Runs, r2 \in Runs :
          (r1 # r2 /\ stamp[r1] # -1 /\ stamp[r2] # -1) => stamp[r1] # stamp[r2]
    /\ \A r \in Runs :
          run_pc[r] = "exited" => [name |-> stamp[r], run |-> r] \in reports

(***************************************************************************)
(* sample_http_urls (lines 531-539) and probe_url (lines 505-520), one     *)
(* urlopen call at a time. The sampled URLs are numbered 1..Len(server);   *)
(* a status of -1 stands for None.                                         *)
(***************************************************************************)
\* Bound: the number of sampled URLs.
MaxSampled == 2

\* What a urlopen call can do: return a response, raise HTTPError with the
\* status code of the answer, or raise another exception (URLError, a
\* timeout).
Answers ==
    {[kind |-> "response", status |-> 200],
     [kind |-> "http_error", status |-> 404],
     [kind |-> "http_error", status |-> 405],
     [kind |-> "error", status |-> -1]}

Servers == {[head |-> h, get |-> g] : h \in Answers, g \in Answers}

RECURSIVE ServerLists(_)
\* the behaviours of at most k sampled URLs
ServerLists(k) ==
    IF k = 0 THEN {<<>>}
    ELSE LET P == ServerLists(k - 1) IN P \cup {p \o <<v>> : p \in P, v \in Servers}

ProbeResult(url, status, ok, method) ==
    [url |-> url, status |-> status, ok |-> ok, method |-> method]

\* The external URLs the audited tree can hold, in the order sorted() puts
\* them. A URL is the sequence of its pieces: the scheme and host as one
\* piece, then the characters of the path.
UrlList ==
    << <<"http://a">>,
       <<"http://f", "/", "x">>,
       <<"http://f", "/", "x", "/">>,
       <<"http://p">>,
       <<"http://p", "/">>,
       <<"http://p", "/", "c">> >>

UrlSet == {UrlList[i] : i \in 1..Len(UrlList)}

\* the URLs a form of the tree may post to
FormActionUrls == {<<"http://f", "/", "x">>, <<"http://f", "/", "x", "/">>}

\* the hrefs a preconnect hint of the default layout may name
PreconnectHrefs == {<<"http://p">>, <<"http://p", "/">>}

\* sorted(urls) of a set of URLs
Sorted(S) == SelectSeq(UrlList, LAMBDA u : u \in S)

TrailingPunctuation == {".", ",", ";", ":", "!", "?", ")"}

RECURSIVE RStripAny(_, _)
\* s.rstrip(chars)
RStripAny(s, chars) ==
    IF s # <<>> /\ s[Len(s)] \in chars
    THEN RStripAny(SubSeq(s, 1, Len(s) - 1), chars) ELSE s

\* the action URLs as written, less trailing punctuation
collect_post_only_external_urls ==
    {RStripAny(action_url, TrailingPunctuation) : action_url \in forms}

\* scheme://netloc of each hint, less a trailing slash
collect_preconnect_root_urls ==
    {RStrip(<<href[1]>>, "/") : href \in hints}

\* the list comprehension of lines 526-529
FilteredUrls ==
    SelectSeq(external_urls,
              LAMBDA url : /\ RStrip(url, "/") \notin collect_post_only_external_urls
                           /\ RStrip(url, "/") \notin collect_preconnect_root_urls)

\* filtered_urls[:n] for n >= 0
Slice(s, n) == SubSeq(s, 1, IF n < Len(s) THEN n ELSE Len(s))

\* Sampled without the cap of line 530
SampledWithoutCap == FilteredUrls

\* sampled = filtered_urls[: max(sample_size, 0)]
Sampled == Slice(FilteredUrls, IF http_sample > 0 THEN http_sample ELSE 0)

\* lines 524-530 of sample_http_urls
SampleUrls ==
    /\ probe_pc = "filter"
    /\ sampled' = Sampled
    /\ probe_pc' = "sample"
    /\ UNCHANGED <<server, cur, requests, results, http_failures>>
    /\ UNCHANGED <<probeInputs, http_check_out>>
    /\ UNCHANGED <<runVars, scanVars, imgVars, routeVars, stampVars, fmVars, hookVars>>

\* the list comprehension of line 531 calls probe_url for the next URL
StartProbe ==
    /\ probe_pc = "sample"
    /\ cur < Len(sampled)
    /\ cur' = cur + 1
    /\ probe_pc' = "head"
    /\ UNCHANGED <<server, requests, results, http_failures>>
    /\ UNCHANGED <<probeInputs, sampled, http_check_out>>
    /\ UNCHANGED <<runVars, scanVars, imgVars, routeVars, stampVars, fmVars, hookVars>>

\* ProbeHead going on to the GET request whatever the HEAD attempt did
ProbeHeadThenGet ==
    /\ probe_pc = "head"
    /\ requests' = Append(requests, <<cur, "HEAD">>)
    /\ probe_pc' = "get"
    /\ UNCHANGED <<server, cur, results, http_failures>>
    /\ UNCHANGED <<probeInputs, sampled, http_check_out>>
    /\ UNCHANGED <<runVars, scanVars, imgVars, routeVars, stampVars, fmVars, hookVars>>

\* the HEAD attempt (lines 507-510): return on a response, go on to the
\* except branch on any exception
ProbeHead ==
    /\ probe_pc = "head"
    /\ requests' = Append(requests, <<cur, "HEAD">>)
    /\ IF server[cur].head.kind = "response"
       THEN /\ results' = Append(results,
                    ProbeResult(cur, server[cur].head.status, TRUE, "HEAD"))
            /\ probe_pc' = "sample"
       ELSE /\ probe_pc' = "get"
            /\ UNCHANGED results
    /\ UNCHANGED <<server, cur, http_failures>>
    /\ UNCHANGED <<probeInputs, sampled, http_check_out>>
    /\ UNCHANGED <<runVars, scanVars, imgVars, routeVars, stampVars, fmVars, hookVars>>

\* ProbeGet counting an HTTP error answer as reachable
ProbeGetOkOnHttpError ==
    /\ probe_pc = "get"
    /\ requests' = Append(requests, <<cur, "GET">>)
    /\ results' = Append(results,
            ProbeResult(cur, server[cur].get.status,
                        server[cur].get.kind # "error", "GET"))
    /\ probe_pc' = "sample"
    /\ UNCHANGED <<server, cur, http_failures>>
    /\ UNCHANGED <<probeInputs, sampled, http_check_out>>
    /\ UNCHANGED <<runVars, scanVars, imgVars, routeVars, stampVars, fmVars, hookVars>>

\* the GET fallback (lines 511-520)
ProbeGet ==
    /\ probe_pc = "get"
    /\ requests' = Append(requests, <<cur, "GET">>)
    /\ results' = Append(results,
            CASE server[cur].get.kind = "response" ->
                    ProbeResult(cur, server[cur].get.status, TRUE, "GET")
              [] server[cur].get.kind = "http_error" ->
                    ProbeResult(cur, server[cur].get.status, FALSE, "GET")
              [] OTHER -> ProbeResult(cur, -1, FALSE, "GET"))
    /\ probe_pc' = "sample"
    /\ UNCHANGED <<server, cur, http_failures>>
    /\ UNCHANGED <<probeInputs, sampled, http_check_out>>
    /\ UNCHANGED <<runVars, scanVars, imgVars, routeVars, stampVars, fmVars, hookVars>>

\* failures = [r for r in results if not r.get('ok')] and the return
CollectFailures ==
    /\ probe_pc = "sample"
    /\ cur = Len(sampled)
    /\ http_failures' = SelectSeq(results, LAMBDA r : ~r.ok)
    /\ http_check_out' = [enabled |-> TRUE,
                          sample_size |-> Len(sampled),
                          failures |-> SelectSeq(results, LAMBDA r : ~r.ok),
                          results |-> results]
    /\ probe_pc' = "done"
    /\ UNCHANGED <<server, cur, requests, results>>
    /\ UNCHANGED <<probeInputs, sampled>>
    /\ UNCHANGED <<runVars, scanVars, imgVars, routeVars, stampVars, fmVars, hookVars>>

\* a server that answers the HEAD request, and one that answers nothing
Reachable ==
    [head |-> [kind |-> "response", status |-> 200],
     get |-> [kind |-> "response", status |-> 200]]

Unreachable ==
    [head |-> [kind |-> "error", status |-> -1],
     get |-> [kind |-> "error", status |-> -1]]

\* the lists of n servers taken from S
ListsOf(S, n) == [1..n -> S]

\* Either a tree without forms and hints whose URLs all fit under the cap,
\* each answering in any way, or any tree and any cap with URLs that
\* answer at once or not at all.
InitProbe ==
    /\ \/ /\ \E k \in 0..MaxSampled :
                /\ external_urls = SubSeq(UrlList, 1, k)
                /\ http_sample = k
                /\ server \in ListsOf(Servers, k)
          /\ forms = {}
          /\ hints = {}
       \/ /\ \E urls \in SUBSET UrlSet :
                /\ external_urls = Sorted(urls)
                /\ forms \in SUBSET (FormActionUrls \cap urls)
                /\ hints \in SUBSET (PreconnectHrefs \cap urls)
          /\ http_sample \in -1..MaxSampled
          /\ server \in ListsOf({Reachable, Unreachable}, Len(Sampled))
    /\ probe_pc = "filter"
    /\ cur = 0
    /\ requests = <<>>
    /\ results = <<>>
    /\ http_failures = <<>>
    /\ sampled = <<>>
    /\ http_check_out = [enabled |-> FALSE, sample_size |-> 0,
                         failures |-> <<>>, results |-> <<>>]
    /\ IdleRun
    /\ IdleScan
    /\ IdleImage
    /\ IdleRoutes
    /\ IdleRuns
    /\ IdleFrontMatter
    /\ IdleHook

NextProbe ==
    SampleUrls \/ StartProbe \/ ProbeHead \/ ProbeGet \/ CollectFailures

SpecProbe == InitProbe /\ [][NextProbe]_vars

(***************************************************************************)
(* Properties of the prober (specification SpecProbe).                     *)
(***************************************************************************)
\* the methods of the urlopen calls issued for the i-th URL, in order
MethodsFor(i) ==
    LET mine == SelectSeq(requests, LAMBDA q : q[1] = i)
    IN  [k \in 1..Len(mine) |-> mine[k][2]]

\* C19: probe_url issues one HEAD request first; a GET request is issued
\* exactly when the HEAD attempt raised, and once; the returned method is
\* HEAD exactly when the HEAD attempt succeeded.
C19_HeadThenOneGet ==
    /\ \A i \in 1..Len(server) :
          MethodsFor(i) \in {<<>>, <<"HEAD">>, <<"HEAD", "GET">>}
    /\ \A i \in 1..Len(results) :
          /\ results[i].url = i
          /\ MethodsFor(i) = IF server[i].head.kind = "response"
                              THEN <<"HEAD">> ELSE <<"HEAD", "GET">>
          /\ results[i].method = "HEAD" <=> server[i].head.kind = "response"

\* HEAD is answered 405, GET 200: two calls, method GET
C19_Witness ==
    /\ probe_pc = "done"
    /\ server = <<[head |-> [kind |-> "http_error", status |-> 405],
                   get |-> [kind |-> "response", status |-> 200]]>>
    /\ requests = << <<1, "HEAD">>, <<1, "GET">> >>
    /\ results[1].method = "GET"

\* C20: every probe ends with a result; ok is false exactly when both the
\* HEAD attempt and the GET fallback raised, the status then being the
\* HTTP error code of the GET or None; the failures list is the results
\* with ok false.
C20_FailureOnlyWhenBothRaise ==
    /\ \A i \in 1..Len(results) :
          LET both == server[i].head.kind # "response" /\ server[i].get.kind # "response"
          IN  /\ results[i].ok <=> ~both
              /\ both => results[i].status =
                            (IF server[i].get.kind = "http_error"
                             THEN server[i].get.status ELSE -1)
    /\ probe_pc = "done" =>
          /\ Len(results) = Len(server)
          /\ \A i \in 1..Len(http_failures) : ~http_failures[i].ok
          /\ Len(http_failures) = Cardinality({i \in 1..Len(results) : ~results[i].ok})
          /\ \A i \in 1..Len(results) :
                ~results[i].ok => \E k \in 1..Len(http_failures) : http_failures[k] = results[i]

\* HEAD times out, GET is answered 404: one failure with status 404
C20_Witness ==
    /\ probe_pc = "done"
    /\ server = <<[head |-> [kind |-> "error", status |-> -1],
                   get |-> [kind |-> "http_error", status |-> 404]]>>
    /\ results = <<[url |-> 1, status |-> 404, ok |-> FALSE, method |-> "GET"]>>
    /\ http_failures = results

\* the URLs of the probed sample
ProbedUrls == {sampled[i] : i \in 1..Len(sampled)}

\* C21: no probed URL is the action URL of a form declared with
\* method=post, written with or without its trailing slash, or the origin
\* of a preconnect hint of the default layout.
C21_SampleExcludesPostOnlyAndPreconnect ==
    /\ \A action_url \in forms :
          /\ action_url \notin ProbedUrls
          /\ RStrip(action_url, "/") \notin ProbedUrls
    /\ \A href \in hints :
          /\ <<href[1]>> \notin ProbedUrls
          /\ <<href[1], "/">> \notin ProbedUrls

IsPrefix(s, t) == Len(s) <= Len(t) /\ s = SubSeq(t, 1, Len(s))

\* C22 as stated: the probed sample is a prefix of the sorted,
\* deduplicated external URL list.
C22_SampleIsPrefixOfExternalUrls ==
    probe_pc # "filter" => IsPrefix(sampled, external_urls)

\* C22, amended: the probed sample is the first N URLs, in sorted order, of
\* the external URL list with the excluded URLs taken out (all of them when
\* fewer than N remain, none when N is zero or negative); no URL is in it
\* twice, each is probed once (one HEAD request, one result), and the
\* reported sample_size is the number of probe results.
C22_SampleIsCappedPrefixOfFiltered ==
    /\ probe_pc # "filter" =>
          /\ IsPrefix(sampled, FilteredUrls)
          /\ Len(sampled) <= (IF http_sample > 0 THEN http_sample ELSE 0)
          /\ Len(sampled) < Len(FilteredUrls) =>
                Len(sampled) = (IF http_sample > 0 THEN http_sample ELSE 0)
          /\ \A i, k \in 1..Len(sampled) : sampled[i] = sampled[k] => i = k
    /\ probe_pc = "done" =>
          /\ \A i \in 1..Len(sampled) :
                /\ Cardinality({k \in 1..Len(results) : results[k].url = i}) = 1
                /\ Cardinality({k \in 1..Len(requests) :
                                    requests[k] = <<i, "HEAD">>}) = 1
          /\ Len(results) = Len(sampled)
          /\ http_check_out.results = results
          /\ http_check_out.sample_size = Len(http_check_out.results)

\* four URLs are found, the first is a form's action URL, the cap is 2:
\* the second and third are probed
C22_Witness ==
    /\ probe_pc = "done"
    /\ http_sample = 2
    /\ Len(external_urls) = 4
    /\ external_urls[1] \in forms
    /\ sampled = SubSeq(external_urls, 2, 3)
    /\ http_check_out.sample_size = 2

(***************************************************************************)
(* Properties of a run that concern the prober, the findings and the exit  *)
(* (specification Spec).                                                   *)
(***************************************************************************)
\* C23: in a run without --http-check no probe request is issued, the
\* report's http_check is enabled=false with sample_size 0 and empty
\* failures and results, the HTTP finding is Skipped, the links score is
\* decided by the local link evidence alone, and the strict failure list
\* holds no http_failures code.
C23_ProberOnlyWhenEnabled ==
    ~argv.http_check =>
        /\ probes = 0
        /\ ReportBuilt =>
              /\ report.http_check = [enabled |-> FALSE, sample_size |-> 0,
                                      failures |-> 0, results |-> 0]
              /\ report.findings["HTTP Reachability Sample"] = "Skipped"
              /\ report.score["broken_links_check"] =
                    (IF report.broken_links = 0
                     THEN HighScore["broken_links_check"]
                     ELSE LowScore["broken_links_check"])
              /\ \A i \in 1..Len(collect_strict_failures(report, argv.http_check)) :
                    collect_strict_failures(report, argv.http_check)[i][1] # "http_failures"
        /\ \A i \in 1..Len(failures) : failures[i][1] # "http_failures"

\* a strict run without the flag on a tree whose only defect is an external
\* URL that would not answer: nothing is probed, the run exits 0
C23_Witness ==
    /\ pc = "exited"
    /\ argv.ok /\ argv.strict /\ ~argv.http_check
    /\ ev["unreachable_urls"] = 1
    /\ probes = 0
    /\ report.http_check.sample_size = 0
    /\ report.score["broken_links_check"] = HighScore["broken_links_check"]
    /\ failures = <<>>
    /\ exit_status = 0

\* the result values the specification enumerates
ResultValues ==
    {"Good", "Needs improvement", "Improved", "Needs tuning", "Clean",
     "Issues found", "Observed", "Skipped", "Healthy"}

\* C25: in every report the result of every finding is one of the nine
\* enumerated values.
C25_FindingResultsEnumerated ==
    ReportBuilt =>
        \A aspect \in DOMAIN report.findings :
            report.findings[aspect] \in ResultValues

\* C26: a run that has exited with status 0 or with the strict-failure
\* status has written exactly one report file and printed its path first;
\* the STRICT_FAIL line comes after it, and only in strict mode; a run
\* without --strict exits 0 whatever the report holds.
C26_ExitFollowsOneWrittenReport ==
    (pc = "exited" /\ exit_status \in {0, StrictFailStatus}) =>
        /\ files = <<report>>
        /\ stdout # <<>> /\ stdout[1] = "report_path"
        /\ stdout \in {<<"report_path">>, <<"report_path", "STRICT_FAIL">>}
        /\ stdout = <<"report_path", "STRICT_FAIL">> =>
              (argv.strict /\ failures # <<>>)
        /\ ~argv.strict => exit_status = 0

\* C27: for the report build_report returned, checked with the flag it was
\* built with, a non-empty strict failure list implies that a section is
\* scored at its lower tier.
C27_StrictFailuresImplyLowSection ==
    ReportBuilt =>
        (collect_strict_failures(report, argv.http_check) # <<>> => SomeSectionLow)

\* a strict run with --http-check on a tree whose only defect is a sampled
\* URL that does not answer: the one failure code is http_failures=1 and
\* the links section is at its lower tier
C27_Witness ==
    /\ pc = "exited"
    /\ argv.strict /\ argv.http_check
    /\ failures = << <<"http_failures", 1>> >>
    /\ report.score["broken_links_check"] = LowScore["broken_links_check"]
    /\ report.findings["HTTP Reachability Sample"] = "Issues Found (1)"

(***************************************************************************)
(* The front-matter readers: extract_front_matter_value (lines 72-81),     *)
(* parse_front_matter_values (lines 84-93) and, for one scanned file,      *)
(* collect_invalid_boolean_front_matter_flags (lines 324-356).             *)
(* A text is the sequence of its pieces: a word (a run of the characters   *)
(* A-Z a-z 0-9 _ -) is one piece, and so is the delimiter ---; a blank, a  *)
(* colon, a quote and a line break are pieces of one character.            *)
(***************************************************************************)
\* Bound: the number of lines written between the two delimiters.
MaxFmLines == 2

Dashes == "---"

Blank == " "

LineBreak == "\n"

\* the pieces that match [A-Za-z0-9_-]+
Words ==
    {"preconnect_fonts", "preload_social_image", "title", "true", "TRUE",
     "False", "yes", "a", "b"}

Quotes == {"\"", "'"}

\* the positions of the delimiter after the opening one
LaterDashes(t) == {i \in 2..Len(t) : t[i] = Dashes}

Least(S) == CHOOSE i \in S : \A k \in S : i <= k

\* text.startswith('---') and len(text.split('---', 2)) >= 3
HasFrontMatter(t) == t # <<>> /\ t[1] = Dashes /\ LaterDashes(t) # {}

\* parts[1] of text.split('---', 2)
FrontMatterPart(t) == SubSeq(t, 2, Least(LaterDashes(t)) - 1)

RECURSIVE SplitLines(_)
\* the lines of a text, which ^ and $ of a MULTILINE pattern delimit
SplitLines(t) ==
    LET breaks == {i \in 1..Len(t) : t[i] = LineBreak}
    IN  IF breaks = {} THEN <<t>>
        ELSE <<SubSeq(t, 1, Least(breaks) - 1)>>
             \o SplitLines(SubSeq(t, Least(breaks) + 1, Len(t)))

\* the number of pieces at the head of s that are in the set S
RECURSIVE Run(_, _)
Run(s, S) == IF s # <<>> /\ Head(s) \in S THEN 1 + Run(Tail(s), S) ELSE 0

Drop(s, n) == SubSeq(s, n + 1, Len(s))

NoMatch == [matched |-> FALSE, key |-> <<>>, value |-> <<>>]

\* FRONT_MATTER_VALUE_RE on one line:
\* ^[ \t]*([A-Za-z0-9_-]+)[ \t]*:[ \t]*(.+)$ . The blanks after the colon
\* are taken greedily, but (.+) needs one character: when only blanks
\* follow the colon the last of them becomes the value, and when nothing
\* follows the line does not match.
MatchLine(l) ==
    LET a == Drop(l, Run(l, {Blank}))
        n == Run(a, Words)
        b == Drop(a, n)
        c == Drop(b, Run(b, {Blank}))
        rest == Drop(c, 1)
        k == Run(rest, {Blank})
    IN  IF n = 0 \/ c = <<>> \/ Head(c) # ":" \/ rest = <<>> THEN NoMatch
        ELSE [matched |-> TRUE,
              key |-> SubSeq(a, 1, n),
              value |-> IF k < Len(rest) THEN Drop(rest, k) ELSE <<rest[Len(rest)]>>]

\* FRONT_MATTER_VALUE_RE.finditer(parts[1]): the matching lines, in order
Matches(t) ==
    LET lines == SplitLines(FrontMatterPart(t))
        all == [i \in 1..Len(lines) |-> MatchLine(lines[i])]
    IN  SelectSeq(all, LAMBDA m : m.matched)

\* s.strip(chars)
StripSet(s, S) == RStripAny(Drop(s, Run(s, S)), S)

\* group(2).strip().strip('"\'')
Cleaned(v) == StripSet(StripSet(v, {Blank, LineBreak}), Quotes)

\* s.lower()
Lower(s) ==
    [i \in 1..Len(s) |->
        CASE s[i] = "TRUE" -> "true"
          [] s[i] = "False" -> "false"
          [] OTHER -> s[i]]

None == [found |-> FALSE, value |-> <<>>]

\* the first match whose key is the one asked for
extract_front_matter_value(t, key) ==
    IF ~HasFrontMatter(t) THEN None
    ELSE LET mine == SelectSeq(Matches(t), LAMBDA m : m.key = key)
         IN  IF mine = <<>> THEN None
             ELSE [found |-> TRUE, value |-> Cleaned(mine[1].value)]

\* values[key] = ... for every match in order: a later match of a key
\* replaces the earlier one
parse_front_matter_values(t) ==
    IF ~HasFrontMatter(t) THEN <<>>
    ELSE LET ms == Matches(t)
             keys == {ms[i].key : i \in 1..Len(ms)}
             last(k) == CHOOSE i \in 1..Len(ms) :
                           /\ ms[i].key = k
                           /\ \A j \in 1..Len(ms) : ms[j].key = k => j <= i
         IN  [k \in keys |-> Cleaned(ms[last(k)].value)]

BOOLEAN_LITERALS == {<<"true">>, <<"false">>}

\* two of the seven keys of lines 632-640, in their order
PerfToggleKeys == << <<"preload_social_image">>, <<"preconnect_fonts">> >>

\* the items collect_invalid_boolean_front_matter_flags appends for a
\* scanned file with this text (lines 338-354)
InvalidFlags(t, keys) ==
    LET values == parse_front_matter_values(t)
        bad == SelectSeq(keys,
                 LAMBDA key : /\ key \in DOMAIN values
                              /\ Lower(StripSet(values[key], {Blank, LineBreak}))
                                    \notin BOOLEAN_LITERALS)
    IN  [i \in 1..Len(bad) |-> [key |-> bad[i], value |-> values[bad[i]]]]

ExtractValue ==
    /\ fm_pc = "extract"
    /\ fm_value' = extract_front_matter_value(fm_text, fm_key)
    /\ fm_pc' = "parse"
    /\ UNCHANGED <<fm_text, fm_key, fm_values, fm_invalid>>
    /\ UNCHANGED <<runVars, scanVars, imgVars, routeVars, stampVars, probeVars, hookVars>>

ParseValues ==
    /\ fm_pc = "parse"
    /\ fm_values' = parse_front_matter_values(fm_text)
    /\ fm_pc' = "flags"
    /\ UNCHANGED <<fm_text, fm_key, fm_value, fm_invalid>>
    /\ UNCHANGED <<runVars, scanVars, imgVars, routeVars, stampVars, probeVars, hookVars>>

CollectInvalidFlags ==
    /\ fm_pc = "flags"
    /\ fm_invalid' = InvalidFlags(fm_text, PerfToggleKeys)
    /\ fm_pc' = "done"
    /\ UNCHANGED <<fm_text, fm_key, fm_value, fm_values>>
    /\ UNCHANGED <<runVars, scanVars, imgVars, routeVars, stampVars, probeVars, hookVars>>

\* the lines a front matter is written from
FmLines ==
    {<<"preconnect_fonts", ":", " ", "true">>,
     <<"preconnect_fonts", ":", " ", "False", " ">>,
     <<"preconnect_fonts", ":", " ", "yes">>,
     <<"preconnect_fonts", ":", " ", "\"", "TRUE", "\"">>,
     <<"preconnect_fonts", ":">>,
     <<"preconnect_fonts", ":", " ">>,
     <<" ", "preload_social_image", " ", ":", "yes">>,
     <<"title", ":", " ", "a", " ", "---", " ", "b">>}

RECURSIVE LineLists(_)
LineLists(n) ==
    IF n = 0 THEN {<<>>}
    ELSE LET P == LineLists(n - 1) IN P \cup {p \o <<l>> : p \in P, l \in FmLines}

RECURSIVE JoinLines(_)
\* every line followed by a line break
JoinLines(ls) ==
    IF ls = <<>> THEN <<>> ELSE Head(ls) \o <<LineBreak>> \o JoinLines(Tail(ls))

\* A document: the opening delimiter or none, some lines, the closing
\* delimiter or none, and a body.
FmTexts ==
    {open \o JoinLines(ls) \o close \o <<"a", LineBreak>> :
        open \in {<<Dashes, LineBreak>>, <<>>},
        ls \in LineLists(MaxFmLines),
        close \in {<<Dashes, LineBreak>>, <<>>}}

InitFrontMatter ==
    /\ fm_text \in FmTexts
    /\ fm_key \in {<<"preconnect_fonts">>, <<"preload_social_image">>, <<"title">>}
    /\ fm_pc = "extract"
    /\ fm_value = None
    /\ fm_values = <<>>
    /\ fm_invalid = <<>>
    /\ IdleRun
    /\ IdleScan
    /\ IdleImage
    /\ IdleRoutes
    /\ IdleRuns
    /\ IdleProbe
    /\ IdleHook

NextFrontMatter == ExtractValue \/ ParseValues \/ CollectInvalidFlags

SpecFrontMatter == InitFrontMatter /\ [][NextFrontMatter]_vars

(***************************************************************************)
(* Properties of the front-matter readers (specification SpecFrontMatter). *)
(***************************************************************************)
\* The front matter of a document as Jekyll delimits it: the lines after
\* a first line that is --- and before the next line that is ---.
FrontMatterLines(t) ==
    LET lines == SplitLines(t)
        closing == {i \in 2..Len(lines) : lines[i] = <<Dashes>>}
    IN  IF lines[1] = <<Dashes>> /\ closing # {}
        THEN SubSeq(lines, 2, Least(closing) - 1)
        ELSE <<>>

\* the line is "key:" followed by anything, blanks allowed around the key
NamesKey(l, key) ==
    LET a == Drop(l, Run(l, {Blank}))
        b == Drop(a, Len(key))
        c == Drop(b, Run(b, {Blank}))
    IN  Len(a) >= Len(key) /\ SubSeq(a, 1, Len(key)) = key
        /\ c # <<>> /\ Head(c) = ":"

\* what the line writes after its colon
WrittenValue(l) ==
    LET colon == Least({i \in 1..Len(l) : l[i] = ":"})
    IN  Cleaned(Drop(l, colon))

\* the key is present in the front matter and the value written for it
\* (the last one, should it be written twice) is neither true nor false
\* in any letter case
PresentAndNotBoolean(t, key) ==
    LET mine == SelectSeq(FrontMatterLines(t), LAMBDA l : NamesKey(l, key))
    IN  /\ mine # <<>>
        /\ Lower(WrittenValue(mine[Len(mine)])) \notin BOOLEAN_LITERALS

\* C24: for a scanned file and each recognized performance-toggle key the
\* detector reports one evidence item exactly when the key is present in
\* the front matter and its value, compared case-insensitively, is
\* neither true nor false; an absent key is never reported.
C24_InvalidFlagReportedExactlyWhenNotBoolean ==
    fm_pc = "done" =>
        \A n \in 1..Len(PerfToggleKeys) :
            Cardinality({i \in 1..Len(fm_invalid) :
                            fm_invalid[i].key = PerfToggleKeys[n]})
            = (IF PresentAndNotBoolean(fm_text, PerfToggleKeys[n]) THEN 1 ELSE 0)

\* C28: extract_front_matter_value(text, key) is the value
\* parse_front_matter_values(text) holds for the key, and None exactly
\* when the mapping does not hold the key, also for a key written twice.
C28_ReadersAgree ==
    fm_pc \in {"flags", "done"} =>
        IF fm_key \in DOMAIN fm_values
        THEN fm_value = [found |-> TRUE, value |-> fm_values[fm_key]]
        ELSE fm_value = None

(***************************************************************************)
(* Termination of get_image_dimensions (specification SpecImageFair).      *)
(***************************************************************************)
\* C29: the marker scan terminates on every file that starts with FF D8:
\* get_image_dimensions eventually returns or raises, and every pass
\* through the top of the loop (line 393) returns or moves the read
\* position forward.
C29_ScanTerminates ==
    /\ <>(ipc = "done")
    /\ [][ipc = "jpeg_scan" => (ipc' = "done" \/ pos' > pos)]_vars

\* FF D8, then a segment whose declared length points past the end of the
\* file: the scan has returned None with the position beyond the file
C29_Witness ==
    /\ ipc = "done"
    /\ IsAt(img, 1, JpegSoi)
    /\ pos > Len(img)
    /\ dims = Outcome("null", 0, 0)

(***************************************************************************)
(* report_hook.py: main (lines 206-256), send_report_to_codex (lines       *)
(* 64-155), call_codex (lines 16-62) and run_git_operations (lines         *)
(* 157-204). A report file of reports/ is its name and its modification    *)
(* time.                                                                   *)
(***************************************************************************)
\* Bound: the number of report files in reports/ when the hook starts.
MaxHookReports == 2

ReportFile(name, mtime) == [name |-> name, mtime |-> mtime]

\* The report directories the hook can start on: n files, modified in
\* any order, no two at the same time.
HookDirs ==
    UNION {{d \in SUBSET {ReportFile(i, m) : i \in 1..n, m \in 1..n} :
              /\ Cardinality(d) = n
              /\ \A f, g \in d : (f.name = g.name \/ f.mtime = g.mtime) => f = g} :
           n \in 0..MaxHookReports}

\* What the hook's surroundings do: the audit writes its report, raises,
\* or ends the process (argparse rejecting the hook's own command line);
\* the agent ends with status 0, with another status, times out or is
\* not installed; the work tree has changes or not; and one git command
\* fails, or none.
HookEnvs ==
    [audit : {"writes_report", "raises", "exits"},
     codex : {"ok", "nonzero", "timeout", "not_found"},
     changes : BOOLEAN,
     git : {"ok", "status", "add", "commit", "push"}]

\* the file the audit writes: a new name, modified after every other file
NewReport == ReportFile(0, MaxHookReports + 1)

\* max(json_reports, key=lambda x: x.stat().st_mtime)
Latest(d) == CHOOSE f \in d : \A g \in d : g.mtime <= f.mtime

\* What site_audit_tool.main() returns when it returns: main has no
\* return statement (site_audit_tool.py, lines 1348-1389).
AuditReturn == "None"

\* Python's truth test of the returned value
Truthy(v) == v # "None"

\* json_reports = list(reports_dir.glob(...)); if not json_reports
HookGlob ==
    /\ hook_pc = "start"
    /\ hook_pc' = IF hook_dir = {} THEN "audit" ELSE "send"
    /\ hook_log' = IF hook_dir = {} THEN Append(hook_log, "no_reports_found")
                                     ELSE hook_log
    /\ UNCHANGED <<hook_dir, hook_env, hook_sent>>
    /\ UNCHANGED <<runVars, scanVars, imgVars, routeVars, stampVars, probeVars, fmVars>>

\* the try block of lines 219-239: report = site_audit_tool.main(), the
\* test of its value, and the except clause, which catches Exception but
\* not SystemExit
HookRunAudit ==
    /\ hook_pc = "audit"
    /\ CASE hook_env.audit = "writes_report" ->
              /\ hook_dir' = hook_dir \cup {NewReport}
              /\ IF Truthy(AuditReturn)
                 THEN IF hook_dir \cup {NewReport} # {}
                      THEN /\ hook_pc' = "send"
                           /\ hook_log' = Append(hook_log, "audit_ran")
                      ELSE /\ hook_pc' = "returned"
                           /\ hook_log' = hook_log \o <<"audit_ran", "no_report_generated">>
                 ELSE /\ hook_pc' = "returned"
                      /\ hook_log' = hook_log \o <<"audit_ran", "audit_returned_none">>
         [] hook_env.audit = "raises" ->
              /\ hook_pc' = "returned"
              /\ hook_log' = Append(hook_log, "error_running_audit")
              /\ UNCHANGED hook_dir
         [] OTHER ->
              /\ hook_pc' = "exited"
              /\ UNCHANGED <<hook_dir, hook_log>>
    /\ UNCHANGED <<hook_env, hook_sent>>
    /\ UNCHANGED <<runVars, scanVars, imgVars, routeVars, stampVars, probeVars, fmVars>>

\* send_report_to_codex(latest_report): the report is read and the prompt
\* file written (lines 64-120)
HookSend ==
    /\ hook_pc = "send"
    /\ hook_sent' = Append(hook_sent, Latest(hook_dir).name)
    /\ hook_log' = Append(hook_log, "prompt_written")
    /\ hook_pc' = "codex"
    /\ UNCHANGED <<hook_dir, hook_env>>
    /\ UNCHANGED <<runVars, scanVars, imgVars, routeVars, stampVars, probeVars, fmVars>>

\* success = call_codex(prompt, PROJECT_DIR), and the completion note on
\* success (lines 123-146)
HookCallCodex ==
    /\ hook_pc = "codex"
    /\ IF hook_env.codex = "ok"
       THEN /\ hook_log' = Append(hook_log, "completion_note")
            /\ hook_pc' = "git"
       ELSE /\ hook_log' = Append(hook_log, "codex_failed")
            /\ hook_pc' = "result"
    /\ UNCHANGED <<hook_dir, hook_env, hook_sent>>
    /\ UNCHANGED <<runVars, scanVars, imgVars, routeVars, stampVars, probeVars, fmVars>>

\* the git commands run_git_operations gets through, in order
GitCommands ==
    LET all == <<"status", "add", "commit", "push">>
        planned == IF hook_env.changes \/ hook_env.git = "status"
                   THEN all ELSE <<"status">>
        failing == {i \in 1..Len(planned) : planned[i] = hook_env.git}
    IN  IF failing = {} THEN planned
        ELSE SubSeq(planned, 1, CHOOSE i \in failing : TRUE) \o <<"git_error">>

\* run_git_operations() (lines 157-204), whose failures are caught inside
HookGit ==
    /\ hook_pc = "git"
    /\ hook_log' = hook_log \o GitCommands
    /\ hook_pc' = "result"
    /\ UNCHANGED <<hook_dir, hook_env, hook_sent>>
    /\ UNCHANGED <<runVars, scanVars, imgVars, routeVars, stampVars, probeVars, fmVars>>

\* the message about success and the return of main
HookResult ==
    /\ hook_pc = "result"
    /\ hook_log' = Append(hook_log, "result_printed")
    /\ hook_pc' = "returned"
    /\ UNCHANGED <<hook_dir, hook_env, hook_sent>>
    /\ UNCHANGED <<runVars, scanVars, imgVars, routeVars, stampVars, probeVars, fmVars>>

InitHook ==
    /\ hook_pc = "start"
    /\ hook_dir \in HookDirs
    /\ hook_env \in HookEnvs
    /\ hook_sent = <<>>
    /\ hook_log = <<>>
    /\ IdleRun
    /\ IdleScan
    /\ IdleImage
    /\ IdleRoutes
    /\ IdleRuns
    /\ IdleProbe
    /\ IdleFrontMatter

NextHook ==
    HookGlob \/ HookRunAudit \/ HookSend \/ HookCallCodex \/ HookGit \/ HookResult

SpecHook == InitHook /\ [][NextHook]_vars

(***************************************************************************)
(* Properties of the hook (specification SpecHook).                        *)
(***************************************************************************)
\* C30: a hook run that found no report, ran the audit and had it write a
\* report file has called send_report_to_codex with that file by the time
\* main returns.
C30_GeneratedReportIsSent ==
    (hook_pc = "returned" /\ NewReport \in hook_dir) =>
        \E i \in 1..Len(hook_sent) : hook_sent[i] = NewReport.name

====
